---------------------------- MODULE Spec2Model ----------------------------
(***************************************************************************)
(* Model of the holdings extraction (scripts/convert_mf_portfolio.py) and  *)
(* of the identifier reconciliation (scripts/isin_validation_mapping.py).  *)
(*                                                                         *)
(* Python strings are modelled as sequences of one-character strings, so   *)
(* that prefix tests, case folding, lengths and substring searches are     *)
(* computed character by character as the code computes them.             *)
(***************************************************************************)
EXTENDS Integers, Sequences, FiniteSets, TLC

VARIABLES
    \* assign_isin call
    a_isin, a_name, a_out, a_pc,
    \* process_sheet run
    df, schema, isin_mapping, validation_mapping, facts, idx, rows, unmapped,
    calculated_total, trace, pc,
    \* detect_and_categorize run
    name_facts, data, processed_isins, validation_rows, pending, rpc,
    \* calls of is_aggregation_row, find_grand_total and validate_fund
    agg_call, total_call, fund_check,
    \* process_fund run: the fund's entry of FUND_CONFIG, the holdings rows of
    \* the fund-period and the position
    config, holdings, fpc,
    \* write_mapping_file and the second pass over the re-ingested ledger
    mapping_file, first_mapping, pass,
    \* the runs of insert_to_database of several fund-periods on one database
    ingestions

vars == <<a_isin, a_name, a_out, a_pc,
          df, schema, isin_mapping, validation_mapping, facts, idx, rows, unmapped,
          calculated_total, trace, pc,
          name_facts, data, processed_isins, validation_rows, pending, rpc,
          agg_call, total_call, fund_check, config, holdings, fpc,
          mapping_file, first_mapping, pass, ingestions>>

assignVars == <<a_isin, a_name, a_out, a_pc>>
sheetVars  == <<df, schema, isin_mapping, validation_mapping, facts, idx, rows, unmapped,
                calculated_total, trace, pc>>
reconVars  == <<name_facts, data, processed_isins, validation_rows, pending, rpc>>
callVars   == <<agg_call, total_call, fund_check>>
fundVars   == <<config, holdings, fpc>>
roundVars  == <<mapping_file, first_mapping, pass>>
ledgerVars == <<ingestions>>
restVars   == <<callVars, fundVars, roundVars, ledgerVars>>

-----------------------------------------------------------------------------
(* Bounds of the model *)

\* longest run of filler characters appended to a prefix in an assign_isin input
MaxPad == 11

\* number of rows below the header in a generated sheet
MaxRows == 3

\* number of distinct identifiers in a generated ledger
MaxItems == 4

\* number of rows of a sheet handed to process_fund, header included
MaxFundRows == 4

\* number of holdings of the sheet that is converted, reconciled and
\* converted again
MaxRoundItems == 3

\* number of ingestions that share the database
MaxWorkers == 3

-----------------------------------------------------------------------------
(* Strings *)

UpperChars == <<"A","B","C","D","E","F","G","H","I","J","K","L","M",
                "N","O","P","Q","R","S","T","U","V","W","X","Y","Z">>
LowerChars == <<"a","b","c","d","e","f","g","h","i","j","k","l","m",
                "n","o","p","q","r","s","t","u","v","w","x","y","z">>
DigitChars == <<"0","1","2","3","4","5","6","7","8","9">>

Range(f) == { f[i] : i \in DOMAIN f }

\* the one element of a singleton: TheOne({ e(x) : x \in {v} }) is e(v), with v
\* computed once
TheOne(S) == CHOOSE x \in S : TRUE

IsUpper(c) == c \in Range(UpperChars)
IsLower(c) == c \in Range(LowerChars)
IsDigit(c) == c \in Range(DigitChars)
IsSpace(c) == c \in {" ", "\t", "\n", "\r"}

\* str.lower() / str.upper(), one character
LowerChar(c) ==
    IF IsUpper(c) THEN LowerChars[CHOOSE i \in 1..26 : UpperChars[i] = c] ELSE c
UpperChar(c) ==
    IF IsLower(c) THEN UpperChars[CHOOSE i \in 1..26 : LowerChars[i] = c] ELSE c

Lower(s) == [i \in 1..Len(s) |-> LowerChar(s[i])]
Upper(s) == [i \in 1..Len(s) |-> UpperChar(s[i])]

\* the printable characters in code-point order (the double quote, the
\* backslash and the grave accent left out), for string comparison
CharTable ==
    <<" ","!","#","$","%","&","'","(",")","*","+",",","-",".","/","0","1","2","3","4","5","6","7","8","9",":",";","<","=",">","?","@","A","B","C","D","E","F","G","H","I","J","K","L","M","N","O",
     "P","Q","R","S","T","U","V","W","X","Y","Z","[","]","^","_","a","b","c","d","e","f","g","h","i","j","k","l","m","n","o","p","q","r","s","t","u","v","w","x","y","z","{","|","}","~">>

Ord(c) == CHOOSE i \in 1..Len(CharTable) : CharTable[i] = c

\* a < b for strings
StrLess(a, b) ==
    \E i \in 1..Len(b) :
        /\ \A j \in 1..(i - 1) : j <= Len(a) /\ a[j] = b[j]
        /\ (i > Len(a) \/ (i <= Len(a) /\ a[i] # b[i] /\ Ord(a[i]) < Ord(b[i])))

\* s.startswith(p)
StartsWith(s, p) == Len(s) >= Len(p) /\ \A i \in 1..Len(p) : s[i] = p[i]

\* p occurs in s at position i
MatchAt(s, p, i) == i + Len(p) - 1 <= Len(s) /\ \A j \in 1..Len(p) : s[i + j - 1] = p[j]

\* p in s
Contains(s, p) == \E i \in 1..(Len(s) + 1) : MatchAt(s, p, i)

\* s.strip()
Strip(s) ==
    TheOne({ TheOne({ IF keep = {} THEN <<>>
                      ELSE SubSeq(v, CHOOSE i \in keep : \A j \in keep : i <= j,
                                     CHOOSE i \in keep : \A j \in keep : i >= j) :
                      keep \in { { i \in 1..Len(v) : ~IsSpace(v[i]) } } }) :
             v \in { s } })

\* s[:n]
Prefix(s, n) == SubSeq(s, 1, IF Len(s) < n THEN Len(s) ELSE n)

\* c * k
Pad(c, k) == [i \in 1..k |-> c]

-----------------------------------------------------------------------------
(* convert_mf_portfolio.py: identifier assignment *)

ISIN_OTHER == <<"I","N","9","9","9","9","9","9","9","9","9","9">>

is_valid_isin_lenient(isin) ==
    IF isin = <<>> THEN FALSE
    ELSE StartsWith(Lower(isin), <<"i","n">>) /\ Len(isin) >= 12

is_valid_isin(isin) ==
    IF isin = <<>> THEN FALSE
    ELSE StartsWith(isin, <<"I","N">>) /\ Len(isin) >= 12

assign_isin_keep(isin_original, instrument_name) ==
    IF isin_original # <<>> THEN isin_original ELSE ISIN_OTHER

assign_isin(isin_original, instrument_name) ==
    IF is_valid_isin(isin_original) THEN isin_original ELSE ISIN_OTHER

AssignPrefixes == { <<>>, <<"I">>, <<"I","N">>, <<"i","n">>, <<"I","n">>,
                    <<"N","I">>, <<" ","I","N">>, <<"I","N","E">> }
AssignFill == { "9", "0", "A" }

AssignInputs == { p \o Pad(c, k) : p \in AssignPrefixes, c \in AssignFill, k \in 0..MaxPad }

AssignNames == { <<>>, <<"T","R","E","P","S">> }

-----------------------------------------------------------------------------
(* Spreadsheet cells: pandas hands the sheet over as rows of untyped cells. *)
(* A cell is blank (NaN), a text or a number.                               *)

NaN    == [k |-> "nan", s |-> <<>>, n |-> 0]
Txt(s) == [k |-> "str", s |-> s, n |-> 0]
Num(n) == [k |-> "num", s |-> <<>>, n |-> n]

\* pd.notna(v)
notna(v) == v.k # "nan"

\* None, and a value that is not None
None == [none |-> TRUE, v |-> 0]
Some(n) == [none |-> FALSE, v |-> n]

RECURSIVE NatStr(_)
NatStr(n) == IF n < 10 THEN <<DigitChars[n + 1]>>
             ELSE NatStr(n \div 10) \o <<DigitChars[(n % 10) + 1]>>

\* str(v) of a non-blank cell
str(v) == IF v.k = "str" THEN v.s
          ELSE IF v.n < 0 THEN <<"-">> \o NatStr(-v.n) ELSE NatStr(v.n)

DigitVal(c) == (CHOOSE i \in 1..10 : DigitChars[i] = c) - 1

RECURSIVE DigitsVal(_)
DigitsVal(s) == IF s = <<>> THEN 0
                ELSE 10 * DigitsVal(SubSeq(s, 1, Len(s) - 1)) + DigitVal(s[Len(s)])

\* float(text): [ok |-> FALSE] stands for ValueError.  The decimal forms
\* [sign] digits [. zeros] are parsed; the sheets generated below hold no
\* other numeric spelling (fractions, exponents, "inf").
ParseFloat(t) ==
    LET s    == Strip(t)
        neg  == s # <<>> /\ s[1] = "-"
        body == IF s # <<>> /\ s[1] \in {"+", "-"} THEN Tail(s) ELSE s
        dots == { i \in 1..Len(body) : body[i] = "." }
        dot  == IF dots = {} THEN Len(body) + 1
                ELSE CHOOSE i \in dots : \A j \in dots : i <= j
        ip   == SubSeq(body, 1, dot - 1)
        fp   == SubSeq(body, dot + 1, Len(body))
        good == /\ ip # <<>>
                /\ \A i \in 1..Len(ip) : IsDigit(ip[i])
                /\ \A i \in 1..Len(fp) : fp[i] = "0"
    IN  IF good THEN [ok |-> TRUE, v |-> IF neg THEN -DigitsVal(ip) ELSE DigitsVal(ip)]
        ELSE [ok |-> FALSE, v |-> 0]

\* float(v) of a non-blank cell
float(v) == IF v.k = "num" THEN [ok |-> TRUE, v |-> v.n] ELSE ParseFloat(v.s)

\* row.iloc[c], columns 0-indexed
iloc(row, c) == row[c + 1]

\* a reading that also takes a negative number for 0
float_or_0_unsigned(row, c) ==
    IF notna(iloc(row, c))
    THEN (IF float(iloc(row, c)).ok /\ float(iloc(row, c)).v > 0
          THEN float(iloc(row, c)).v ELSE 0)
    ELSE 0

\* try: float(row.iloc[c]) if pd.notna(row.iloc[c]) else 0
\* except (ValueError, TypeError): 0
float_or_0(row, c) ==
    IF notna(iloc(row, c))
    THEN (IF float(iloc(row, c)).ok THEN float(iloc(row, c)).v ELSE 0)
    ELSE 0

\* str(row.iloc[c]).strip() if pd.notna(row.iloc[c]) else ''
text_or_empty(row, c) == IF notna(iloc(row, c)) THEN Strip(str(iloc(row, c))) ELSE <<>>

RECURSIVE JoinCells(_)
\* ' '.join([str(v) for v in row if pd.notna(v)])
JoinCells(row) ==
    IF row = <<>> THEN <<>>
    ELSE LET rest == JoinCells(Tail(row))
         IN  IF ~notna(Head(row)) THEN rest
             ELSE IF \A i \in 1..Len(Tail(row)) : ~notna(Tail(row)[i]) THEN str(Head(row))
             ELSE str(Head(row)) \o <<" ">> \o rest

-----------------------------------------------------------------------------
(* convert_mf_portfolio.py: is_aggregation_row *)

skip_patterns == <<<<"s","u","b"," ","t","o","t","a","l">>, <<"s","u","b","t","o","t","a","l">>, <<"g","r","a","n","d"," ","t","o","t","a","l">>, <<"g","r","a","n","d","t","o","t","a","l">>>>

section_headers == <<
    <<"t","r","e","a","s","u","r","y"," ","b","i","l","l","s">>, <<"t","r","e","a","s","u","r","y"," ","b","i","l","l">>,
    <<"m","o","n","e","y"," ","m","a","r","k","e","t"," ","i","n","s","t","r","u","m","e","n","t","s">>, <<"m","o","n","e","y"," ","m","a","r","k","e","t">>,
    <<"d","e","b","t"," ","i","n","s","t","r","u","m","e","n","t","s">>, <<"d","e","b","t">>,
    <<"e","q","u","i","t","y"," ","&"," ","e","q","u","i","t","y"," ","r","e","l","a","t","e","d">>, <<"e","q","u","i","t","y"," ","a","n","d"," ","e","q","u","i","t","y">>,
    <<"l","i","s","t","e","d"," ","/"," ","a","w","a","i","t","i","n","g">>, <<"l","i","s","t","e","d","/","a","w","a","i","t","i","n","g">>,
    <<"p","r","i","v","a","t","e","l","y"," ","p","l","a","c","e","d">>, <<"u","n","l","i","s","t","e","d">>,
    <<"c","e","r","t","i","f","i","c","a","t","e"," ","o","f"," ","d","e","p","o","s","i","t">>, <<"c","o","m","m","e","r","c","i","a","l"," ","p","a","p","e","r">>,
    <<"g","o","v","e","r","n","m","e","n","t"," ","s","e","c","u","r","i","t","i","e","s">>, <<"g","o","v","e","r","n","m","e","n","t"," ","s","e","c","u","r","i","t","y">>,
    <<"c","o","r","p","o","r","a","t","e"," ","d","e","b","t">>, <<"c","o","r","p","o","r","a","t","e"," ","b","o","n","d">>,
    <<"s","e","c","u","r","i","t","i","s","e","d"," ","d","e","b","t">>, <<"p","a","s","s"," ","t","h","r","o","u","g","h">>,
    <<"u","n","i","t","s"," ","o","f"," ","r","e","a","l"," ","e","s","t","a","t","e">>, <<"r","e","i","t","s">>,
    <<"u","n","i","t","s"," ","o","f"," ","a","n"," ","a","l","t","e","r","n","a","t","i","v","e">>, <<"a","i","f">>,
    <<"z","e","r","o"," ","c","o","u","p","o","n"," ","b","o","n","d","s">>, <<"d","e","e","p"," ","d","i","s","c","o","u","n","t"," ","b","o","n","d","s">>,
    <<"o","t","h","e","r","s">> >>

\* \w of the regular expressions
IsWordChar(c) == IsUpper(c) \/ IsLower(c) \/ IsDigit(c) \/ c = "_"

\* re.search(r'\btotal\b', s)
HasWordTotal(s) ==
    \E i \in 1..Len(s) :
        /\ MatchAt(s, <<"t","o","t","a","l">>, i)
        /\ (i = 1 \/ ~IsWordChar(s[i - 1]))
        /\ (i + 5 > Len(s) \/ ~IsWordChar(s[i + 5]))

is_aggregation_row(name, isin, full_row_text) ==
    LET name_lower == Strip(Lower(name))
        isin_lower == Strip(Lower(isin))
        row_lower  == Lower(full_row_text)
    IN  \/ \E p \in Range(skip_patterns) :
              Contains(name_lower, p) \/ Contains(isin_lower, p)
        \/ /\ (~StartsWith(isin_lower, <<"i","n">>) \/ Len(isin_lower) # 12)
           /\ \E h \in Range(section_headers) :
                  name_lower = h \/ StartsWith(name_lower, h)
        \/ name_lower = <<"t","o","t","a","l">>
        \/ isin_lower = <<"t","o","t","a","l">>
        \/ /\ row_lower # <<>>
           /\ HasWordTotal(row_lower)
           /\ ~Contains(row_lower, <<"n","e","t">>)

-----------------------------------------------------------------------------
(* convert_mf_portfolio.py: process_sheet, what it reads of one row *)

ISIN_OTHER_DISPLAY_NAME == <<"C","a","s","h"," ","&"," ","O","t","h","e","r"," ","A","s","s","e","t","s">>
CASH_AGGREGATE == <<"C","A","S","H","_","A","G","G","R","E","G","A","T","E">>
CASH_REASON ==
    <<"C","a","s","h",","," ","T","R","E","P","S",","," ","r","e","p","o","s",","," ","f","u","t","u","r","e","s",","," ","a","n","d"," ","o","t","h","e","r"," ","n","o","n","-","I","S","I","N"," ","i","t","e","m","s"," ","c","o","n","s","o","l","i","d","a","t","e","d"," ","u","n","d","e","r"," ","s","y","n","t","h","e","t","i","c"," ","I","S","I","N">>

\* isin_original, name, full_row_text, first_cell, market_value and quantity of
\* a row (df.iloc[idx]) under a schema
isin_original_of(row, sc) == text_or_empty(row, sc.isin_col)
name_of(row, sc)          == text_or_empty(row, sc.name_col)
full_row_text_of(row)     == JoinCells(row)
market_value_of(row, sc)  == float_or_0(row, sc.market_value_col)
quantity_of(row, sc)      == float_or_0(row, sc.quantity_col)

first_cell_of(row) ==
    IF notna(iloc(row, 0)) THEN Lower(Strip(str(iloc(row, 0)))) ELSE <<>>

is_stop_row_grand_only(row) ==
    Contains(Lower(full_row_text_of(row)), <<"g","r","a","n","d"," ","t","o","t","a","l">>)

is_stop_row_any_total(row) ==
    \/ Contains(Lower(full_row_text_of(row)), <<"g","r","a","n","d"," ","t","o","t","a","l">>)
    \/ Contains(Lower(full_row_text_of(row)), <<"t","o","t","a","l"," ","n","e","t"," ","a","s","s","e","t","s">>)
    \/ Contains(first_cell_of(row), <<"t","o","t","a","l">>)

\* the three break conditions of the walk
is_stop_row(row) ==
    \/ Contains(Lower(full_row_text_of(row)), <<"g","r","a","n","d"," ","t","o","t","a","l">>)
    \/ Contains(Lower(full_row_text_of(row)), <<"t","o","t","a","l"," ","n","e","t"," ","a","s","s","e","t","s">>)
    \/ first_cell_of(row) = <<"t","o","t","a","l">>

\* name.lower().strip() == 'reverse repo' and not is_valid_isin(isin_original)
needs_lookahead(row, sc) ==
    /\ Strip(Lower(name_of(row, sc))) = <<"r","e","v","e","r","s","e"," ","r","e","p","o">>
    /\ ~is_valid_isin(isin_original_of(row, sc))

\* next_name.lower().startswith('reverse repo')
\*   and next_name.lower().strip() != 'reverse repo'
is_dated_child(row, sc) ==
    /\ StartsWith(Lower(name_of(row, sc)), <<"r","e","v","e","r","s","e"," ","r","e","p","o">>)
    /\ Strip(Lower(name_of(row, sc))) # <<"r","e","v","e","r","s","e"," ","r","e","p","o">>

\* everything the walk tests on a row, computed once per row and schema
RowFacts(row, sc) ==
    [ stop            |-> is_stop_row(row),
      aggregation     |-> is_aggregation_row(name_of(row, sc), isin_original_of(row, sc),
                                             full_row_text_of(row)),
      needs_lookahead |-> needs_lookahead(row, sc),
      dated_child     |-> is_dated_child(row, sc),
      market_value    |-> market_value_of(row, sc),
      quantity        |-> quantity_of(row, sc),
      isin_original   |-> isin_original_of(row, sc),
      name            |-> name_of(row, sc) ]

-----------------------------------------------------------------------------
(* Sheets, schemas and lookup tables the walk is run on *)

IsinA == <<"I","N","E","0","0","0","0","0","0","0","1","0">>
IsinB == <<"I","N","E","0","0","0","0","0","0","0","2","8">>

\* name, identifier, market value, quantity
RowCatalog == {
    <<Txt(<<"A","l","p","h","a"," ","L","t","d">>), Txt(IsinA), Num(100), Num(5)>>,
    <<Txt(<<"B","e","t","a"," ","L","t","d">>), Txt(<<"i","n","e","0","0","0","0","0","0","0","2","8">>), Txt(<<"2","0","0">>), Txt(<<"n","/","a">>)>>,
    <<Txt(<<"T","R","E","P","S">>), NaN, Num(50), NaN>>,
    <<Txt(<<"G","r","a","n","d"," ","T","o","t","a","l">>), NaN, Num(350), NaN>>,
    <<Txt(<<"T","o","t","a","l">>), NaN, NaN, NaN>>,
    <<Txt(<<"T","o","t","a","l"," ","N","e","t"," ","A","s","s","e","t","s">>), Txt(IsinB), Num(350), NaN>>,
    <<Txt(<<"S","u","b"," ","T","o","t","a","l">>), NaN, Num(150), NaN>>,
    <<Txt(<<"R","e","v","e","r","s","e"," ","R","e","p","o">>), NaN, Num(70), NaN>>,
    <<Txt(<<"R","E","V","E","R","S","E"," ","R","E","P","O"," ","(","1","5"," ","D","e","c"," ","2","0","2","5",")">>), NaN, Num(70), NaN>>,
    <<NaN, NaN, NaN, NaN>> }

Sheets == UNION { [1..n -> RowCatalog] : n \in 0..MaxRows }

Schemas == {
    [data_start_row |-> 1, isin_col |-> 1, name_col |-> 0,
     market_value_col |-> 2, quantity_col |-> 3],
    [data_start_row |-> 2, isin_col |-> 1, name_col |-> 0,
     market_value_col |-> 2, quantity_col |-> 3],
    [data_start_row |-> 1, isin_col |-> 0, name_col |-> 1,
     market_value_col |-> 2, quantity_col |-> 3] }

EmptyTable == <<>>

\* isin_master: identifier -> name_nsdl, nse_symbol
Registries == {
    EmptyTable,
    [x \in {IsinA, ISIN_OTHER} |->
        IF x = IsinA THEN [name_nsdl |-> <<"A","L","P","H","A"," ","L","I","M","I","T","E","D">>, nse_symbol |-> <<"A","L","P","H","A">>]
        ELSE [name_nsdl |-> <<>>, nse_symbol |-> <<>>]] }

\* validation mapping: identifier -> isin_mapped, name_mapped, category, reason
Mappings == {
    EmptyTable,
    [x \in {IsinA} |->
        [isin_mapped |-> IsinB, name_mapped |-> <<"A","L","P","H","A"," ","L","I","M","I","T","E","D"," ","N","E","W">>,
         category |-> <<"C","O","R","P","O","R","A","T","E","_","A","C","T","I","O","N">>,
         reason |-> <<"S","a","m","e"," ","i","s","s","u","e","r"," ","0","0","0","0",","," ","e","q","u","i","t","y",","," ","s","e","r","i","a","l"," ","0","1"," ","-",">"," ","0","2">>]] }

\* the rows, registries and mapping tables the reading of values and the
\* resolution of names are run on: name, identifier, market value, quantity
ValueRows == {
    <<Txt(<<"A","l","p","h","a"," ","L","t","d">>), Txt(IsinA), Num(100), Num(5)>>,
    <<Txt(<<"B","e","t","a"," ","L","t","d">>), Txt(IsinB), Num(-200), Txt(<<"N","I","L">>)>>,
    <<Txt(<<"T","R","E","P","S">>), NaN, Txt(<<"5","0">>), NaN>>,
    <<Txt(<<"G","a","m","m","a"," ","L","t","d">>), Txt(IsinB), Txt(<<"N","I","L">>), Num(7)>>,
    <<Txt(<<"D","e","l","t","a"," ","L","t","d">>), Txt(IsinA), NaN, Num(3)>>,
    <<Txt(<<"N","e","t"," ","R","e","c","e","i","v","a","b","l","e","s">>), NaN, Num(0), NaN>> }

ValueSheets == UNION { [1..n -> ValueRows] : n \in 0..MaxRows }

\* besides the registries above, one with a name for the cash code
ValueRegistries ==
    Registries \cup
    { [x \in {ISIN_OTHER} |-> [name_nsdl |-> <<"C","A","S","H"," ","A","N","D"," ","O","T","H","E","R","S">>, nse_symbol |-> <<>>]] }

\* besides the mapping tables above, one with an entry for the cash code
ValueMappings ==
    Mappings \cup
    { [x \in {ISIN_OTHER} |->
        [isin_mapped |-> <<"S","Y","N","C","A","S","H","0","0","0","0","1">>, name_mapped |-> <<"C","a","s","h">>,
         category |-> <<"C","A","S","H","_","O","T","H","E","R">>, reason |-> <<"K","e","p","t"," ","a","p","a","r","t">>]] }

-----------------------------------------------------------------------------
(* convert_mf_portfolio.py: process_sheet, one row of the walk at a time *)

\* what the loop body reads of every row of df under schema (pure in both)
SheetFacts(sheet, sc) == [i \in 1..Len(sheet) |-> RowFacts(sheet[i], sc)]

\* the row at 0-indexed position i: df.iloc[i]
fact(i) == facts[i + 1]

\* the look-ahead of a row named exactly "reverse repo": the rows after i, in
\* order, up to the first one whose market value is not 0
is_subtotal_any_later(i) ==
    \E j \in (i + 1)..(Len(df) - 1) :
        /\ fact(j).market_value # 0
        /\ fact(j).dated_child

is_subtotal(i) ==
    \E j \in (i + 1)..(Len(df) - 1) :
        /\ fact(j).market_value # 0
        /\ \A m \in (i + 1)..(j - 1) : fact(m).market_value = 0
        /\ fact(j).dated_child

\* dict.get(key, {}) on a table modelled as a function
Has(table, key) == key \in DOMAIN table

\* a reading that puts the display label of the cash code before the registry
name_final_label_first(name_nsdl, isin_assigned, name) ==
    IF isin_assigned = ISIN_OTHER THEN ISIN_OTHER_DISPLAY_NAME
    ELSE IF name_nsdl # <<>> THEN name_nsdl
    ELSE name

\* if name_nsdl: name_nsdl / elif isin_assigned == ISIN_OTHER: the display
\* label / else: name
name_final_of(name_nsdl, isin_assigned, name) ==
    IF name_nsdl # <<>> THEN name_nsdl
    ELSE IF isin_assigned = ISIN_OTHER THEN ISIN_OTHER_DISPLAY_NAME
    ELSE name

\* a reading that files every cash row under CASH_AGGREGATE
is_cash_aggregate_always(isin_assigned, mapping_category) ==
    isin_assigned = ISIN_OTHER

\* if isin_assigned == ISIN_OTHER and not mapping_category
is_cash_aggregate(isin_assigned, mapping_category) ==
    isin_assigned = ISIN_OTHER /\ mapping_category = <<>>

\* the ProcessedRow built for the row at position i
ProcessedRow(i) ==
    LET isin_original == fact(i).isin_original
        name          == fact(i).name
        isin_assigned == assign_isin(isin_original, name)
        mapped        == Has(isin_mapping, isin_assigned)
        name_nsdl     == IF mapped THEN isin_mapping[isin_assigned].name_nsdl ELSE <<>>
        name_final    == name_final_of(name_nsdl, isin_assigned, name)
        val           == Has(validation_mapping, isin_assigned)
        category      == IF val THEN validation_mapping[isin_assigned].category ELSE <<>>
        reason        == IF val THEN validation_mapping[isin_assigned].reason ELSE <<>>
        cash          == is_cash_aggregate(isin_assigned, category)
    IN  [ isin_original    |-> isin_original,
          isin_assigned    |-> isin_assigned,
          instrument_name  |-> name,
          market_value     |-> fact(i).market_value,
          quantity         |-> fact(i).quantity,
          nse_symbol       |-> IF mapped THEN isin_mapping[isin_assigned].nse_symbol ELSE <<>>,
          name_nsdl        |-> name_nsdl,
          name_final       |-> name_final,
          isin_mapped      |-> IF val THEN validation_mapping[isin_assigned].isin_mapped
                               ELSE isin_assigned,
          name_mapped      |-> IF val THEN validation_mapping[isin_assigned].name_mapped
                               ELSE name_final,
          mapping_category |-> IF cash THEN CASH_AGGREGATE ELSE category,
          mapping_reason   |-> IF cash THEN CASH_REASON ELSE reason ]

RECURSIVE SumValues(_)
\* sum(r.market_value for r in rows)
SumValues(rs) == IF rs = <<>> THEN 0 ELSE Head(rs).market_value + SumValues(Tail(rs))

\* the walk is at a row of the sheet
AtRow == pc = "walk" /\ idx < Len(df)

\* what the walk did with a row; kept to state the properties of the walk
Note(what) == Append(trace, [idx |-> idx, what |-> what])

\* return rows, calculated_total, unmapped
Return ==
    /\ pc' = "done"
    /\ calculated_total' = SumValues(rows)
    /\ UNCHANGED <<df, schema, isin_mapping, validation_mapping, facts, idx, rows, unmapped>>
    /\ UNCHANGED assignVars
    /\ UNCHANGED reconVars
    /\ UNCHANGED restVars

Continue(what) ==
    /\ idx' = idx + 1
    /\ trace' = Note(what)
    /\ UNCHANGED <<df, schema, isin_mapping, validation_mapping, facts, rows, unmapped,
                   calculated_total, pc>>
    /\ UNCHANGED assignVars
    /\ UNCHANGED reconVars
    /\ UNCHANGED restVars

PassesSkipRules(i) == ~fact(i).stop /\ ~fact(i).aggregation

PassesLookahead(i) == ~(fact(i).needs_lookahead /\ is_subtotal(i))

\* break at a Grand Total variant
Stop ==
    /\ AtRow
    /\ fact(idx).stop
    /\ trace' = Note("stop")
    /\ Return

\* the loop runs off the end of the sheet
EndOfSheet ==
    /\ pc = "walk"
    /\ idx >= Len(df)
    /\ trace' = trace
    /\ Return

\* continue: aggregation row
SkipAggregation ==
    /\ AtRow
    /\ ~fact(idx).stop
    /\ fact(idx).aggregation
    /\ Continue("aggregation")

\* continue: "Reverse Repo" subtotal followed by dated children
SkipReverseRepo ==
    /\ AtRow
    /\ PassesSkipRules(idx)
    /\ fact(idx).needs_lookahead
    /\ is_subtotal(idx)
    /\ Continue("subtotal")

\* continue: no market value
SkipZero ==
    /\ AtRow
    /\ PassesSkipRules(idx)
    /\ PassesLookahead(idx)
    /\ fact(idx).market_value = 0
    /\ Continue("zero")

\* rows.append(processed)
Emit ==
    /\ AtRow
    /\ PassesSkipRules(idx)
    /\ PassesLookahead(idx)
    /\ fact(idx).market_value # 0
    /\ rows' = Append(rows, ProcessedRow(idx))
    /\ unmapped' =
          IF ~Has(isin_mapping, ProcessedRow(idx).isin_assigned)
             /\ is_valid_isin(ProcessedRow(idx).isin_assigned)
          THEN Append(unmapped, <<ProcessedRow(idx).isin_assigned, fact(idx).name>>)
          ELSE unmapped
    /\ idx' = idx + 1
    /\ trace' = Note("emit")
    /\ UNCHANGED <<df, schema, isin_mapping, validation_mapping, facts, calculated_total, pc>>
    /\ UNCHANGED assignVars
    /\ UNCHANGED reconVars
    /\ UNCHANGED restVars

-----------------------------------------------------------------------------
(* isin_validation_mapping.py: names and identifiers *)

NAME_CUT_LENGTH == 7
SYNTHETIC_PREFIX == <<"S","Y","N">>

\* re.sub(r"[^a-z0-9]", "", str(name).lower().strip())
standardize_name(name) ==
    IF name = <<>> THEN <<>>
    ELSE SelectSeq(Strip(Lower(name)), LAMBDA c : IsLower(c) \/ IsDigit(c))

\* the least element of a non-empty set of integers
Least(S) == CHOOSE i \in S : \A j \in S : i <= j

\* a \b at position j of s (between s[j - 1] and s[j])
WordBoundary(s, j) ==
    LET before == j > 1 /\ j - 1 <= Len(s) /\ IsWordChar(s[j - 1])
        here   == j >= 1 /\ j <= Len(s) /\ IsWordChar(s[j])
    IN  before # here

\* token at j, then one whitespace character
TokenThenSpace(s, j, token) ==
    MatchAt(s, token, j) /\ j + Len(token) <= Len(s) /\ IsSpace(s[j + Len(token)])

\* \d+D\s at j
DaysThenSpace(s, j) ==
    \E e \in j..Len(s) :
        /\ e > j
        /\ \A m \in j..(e - 1) : IsDigit(s[m])
        /\ s[e] = "D"
        /\ e + 1 <= Len(s) /\ IsSpace(s[e + 1])

\* the suffixes extract_company_name removes, in order: \s+<token> followed by
\* anything (space FALSE) or by a whitespace character (space TRUE); the last
\* one is \s+\d+D\s
suffixes == <<
    [token |-> <<"L","I","M","I","T","E","D">>, space |-> FALSE, digits |-> FALSE],
    [token |-> <<"L","T","D">>, space |-> FALSE, digits |-> FALSE],
    [token |-> <<"B","A","N","K">>, space |-> TRUE, digits |-> FALSE],
    [token |-> <<"E","Q">>, space |-> TRUE, digits |-> FALSE],
    [token |-> <<"C","D">>, space |-> TRUE, digits |-> FALSE],
    [token |-> <<"C","P">>, space |-> TRUE, digits |-> FALSE],
    [token |-> <<"N","C","D">>, space |-> TRUE, digits |-> FALSE],
    [token |-> <<"D">>, space |-> TRUE, digits |-> TRUE] >>

\* what follows the \s+ of a suffix matches at position j of s
SuffixAt(s, j, suffix) ==
    IF suffix.digits THEN DaysThenSpace(s, j)
    ELSE IF suffix.space THEN TokenThenSpace(s, j, suffix.token)
    ELSE MatchAt(s, suffix.token, j)

\* the starts of the matches of the suffix in s
SuffixStarts(s, suffix) ==
    { i \in 1..Len(s) :
        /\ IsSpace(s[i])
        /\ \E j \in (i + 1)..(Len(s) + 1) :
              /\ \A m \in i..(j - 1) : IsSpace(s[m])
              /\ SuffixAt(s, j, suffix) }

\* re.sub(suffix, '', s): s is cut at the leftmost match
CutAt(s, suffix) ==
    TheOne({ IF starts = {} THEN s ELSE SubSeq(s, 1, Least(starts) - 1) :
               starts \in { SuffixStarts(s, suffix) } })

\* for suffix in suffixes: name = re.sub(suffix, '', name), from the k-th on
RECURSIVE strip_suffixes(_, _)
strip_suffixes(name, k) ==
    IF k > Len(suffixes) THEN name
    ELSE TheOne({ strip_suffixes(cut, k + 1) : cut \in { CutAt(name, suffixes[k]) } })

\* re.sub(r'\s+', ' ', s): a whitespace character stays unless one precedes it
CollapseSpaces(s) ==
    TheOne({ [k \in 1..Len(kept) |-> s[kept[k]]] :
               kept \in { SelectSeq([i \in 1..Len(s) |-> i],
                                    LAMBDA i : ~(IsSpace(s[i]) /\ i > 1 /\ IsSpace(s[i - 1]))) } })

RECURSIVE Words(_)
\* s.split()
Words(s) ==
    TheOne({ IF t = <<>> THEN <<>>
             ELSE TheOne({ IF sp = {} THEN <<t>>
                           ELSE <<SubSeq(t, 1, Least(sp) - 1)>> \o Words(SubSeq(t, Least(sp), Len(t))) :
                             sp \in { { i \in 1..Len(t) : IsSpace(t[i]) } } }) :
               t \in { Strip(s) } })

RECURSIVE JoinWords(_)
\* ' '.join(words)
JoinWords(ws) ==
    IF ws = <<>> THEN <<>>
    ELSE IF Len(ws) = 1 THEN ws[1]
    ELSE ws[1] \o <<" ">> \o JoinWords(Tail(ws))

\* the base company name of an instrument name
extract_company_name(full_name) ==
    IF full_name = <<>> THEN <<>>
    ELSE TheOne({
        \* re.match(r'^(.+?\s+BANK)\b', name): the ends of the candidates
        LET bank == { e \in 6..Len(name) :
                        /\ MatchAt(name, <<"B","A","N","K">>, e - 3)
                        /\ IsSpace(name[e - 4])
                        /\ WordBoundary(name, e + 1) }
        IN  IF bank # {} THEN SubSeq(name, 1, Least(bank))
            ELSE TheOne({ IF Len(cleaned) < 5 THEN JoinWords(Prefix(Words(Upper(full_name)), 3))
                          ELSE cleaned :
                            cleaned \in { Strip(CollapseSpaces(strip_suffixes(name, 1))) } }) :
        name \in { Strip(Upper(full_name)) } })

\* parse_isin: the components of an identifier of 12 or more characters
parse_isin(isin) ==
    [ isin          |-> isin,
      country       |-> SubSeq(isin, 1, 2),
      issuer_type   |-> SubSeq(isin, 3, 3),
      issuer_code   |-> SubSeq(isin, 4, 7),
      security_type |-> SubSeq(isin, 8, 9),
      serial        |-> SubSeq(isin, 10, 11),
      check         |-> SubSeq(isin, 12, 12),
      base_9        |-> SubSeq(isin, 1, 9) ]

get_security_category_16(sec_type) ==
    IF sec_type = <<"0","1">> THEN "EQUITY"
    ELSE IF sec_type = <<"1","6">> THEN "CD"
    ELSE IF sec_type = <<"1","4">> THEN "CP"
    ELSE IF sec_type \in {<<"0","7">>, <<"0","8">>} THEN "NCD"
    ELSE "OTHER"

get_security_category(sec_type) ==
    IF sec_type = <<"0","1">> THEN "EQUITY"
    ELSE IF sec_type \in {<<"1","6">>, <<"D","6">>} THEN "CD"
    ELSE IF sec_type = <<"1","4">> THEN "CP"
    ELSE IF sec_type \in {<<"0","7">>, <<"0","8">>} THEN "NCD"
    ELSE "OTHER"

\* f"{seq:02d}"
TwoDigits(n) == IF n < 10 THEN <<"0">> \o NatStr(n) ELSE NatStr(n)

generate_synthetic_isin_unpadded(issuer_code, category, seq) ==
    SYNTHETIC_PREFIX \o issuer_code \o category \o NatStr(seq)

generate_synthetic_isin(issuer_code, category, seq) ==
    SYNTHETIC_PREFIX \o issuer_code \o category \o TwoDigits(seq)

\* category is the text "CD" or "CP"
generate_aggregated_name(items, category) ==
    IF items = <<>> THEN <<>>
    ELSE TheOne({ IF category = <<"C","D">> THEN base_name \o <<" ","C","D">>
                  ELSE IF category = <<"C","P">>
                       THEN (IF Contains(Upper(items[1].name), <<"3","6","5","D">>)
                             THEN base_name \o <<" ","3","6","5","D"," ","C","P">>
                             ELSE base_name \o <<" ","C","P">>)
                  ELSE base_name \o <<" ">> \o category :
                  base_name \in { extract_company_name(items[1].name) } })

\* detect_goi_security: "TBILL", "GSEC" or "None"
detect_goi_security(name) ==
    IF name = <<>> THEN "None"
    ELSE
    LET u == Upper(name)
        \* \d+\.\d+\s*(FV|%)
        coupon == \E d \in 2..(Len(u) - 1) :
                     /\ u[d] = "." /\ IsDigit(u[d - 1]) /\ IsDigit(u[d + 1])
                     /\ \E e \in (d + 1)..Len(u) :
                           /\ \A m \in (d + 1)..e : IsDigit(u[m])
                           /\ \E f \in (e + 1)..(Len(u) + 1) :
                                 /\ \A m \in (e + 1)..(f - 1) : IsSpace(u[m])
                                 /\ MatchAt(u, <<"F","V">>, f) \/ MatchAt(u, <<"%">>, f)
        \* GOI\s+\d{2}[A-Z]{2}\d{2}
        dated  == \E g \in 1..Len(u) :
                     /\ MatchAt(u, <<"G","O","I">>, g)
                     /\ \E f \in (g + 4)..Len(u) :
                           /\ \A m \in (g + 3)..(f - 1) : IsSpace(u[m])
                           /\ f + 5 <= Len(u)
                           /\ IsDigit(u[f]) /\ IsDigit(u[f + 1])
                           /\ IsUpper(u[f + 2]) /\ IsUpper(u[f + 3])
                           /\ IsDigit(u[f + 4]) /\ IsDigit(u[f + 5])
    IN  IF ~Contains(u, <<"G","O","V","E","R","N","M","E","N","T"," ","O","F"," ","I","N","D","I","A">>) /\ ~Contains(u, <<"G","O","I">>) THEN "None"
        ELSE IF Contains(u, <<"T","B","I","L","L">>) \/ Contains(u, <<"T","-","B","I","L","L">>) \/ Contains(u, <<"T"," ","B","I","L","L">>)
             THEN "TBILL"
        ELSE IF coupon THEN "GSEC"
        ELSE IF dated THEN "GSEC"
        ELSE "None"

-----------------------------------------------------------------------------
(* isin_validation_mapping.py: load_holdings_data and detect_and_categorize *)

CORPORATE_ACTION == <<"C","O","R","P","O","R","A","T","E","_","A","C","T","I","O","N">>
CD_AGGREGATE     == <<"C","D","_","A","G","G","R","E","G","A","T","E">>
CP_AGGREGATE     == <<"C","P","_","A","G","G","R","E","G","A","T","E">>
TBILL_AGGREGATE  == <<"T","B","I","L","L","_","A","G","G","R","E","G","A","T","E">>
GSEC_AGGREGATE   == <<"G","S","E","C","_","A","G","G","R","E","G","A","T","E">>
NO_ACTION        == <<"N","O","_","A","C","T","I","O","N">>

\* sorted(s, key=lambda x: x[key]): a stable sort on a text field; the element
\* of s at index i goes to the place after those that are smaller and those
\* that are equal and come before it
sorted(s, key) ==
    TheOne({ TheOne({ [r \in 1..Len(v) |-> v[CHOOSE i \in 1..Len(v) : place[i] = r]] :
                      place \in { [i \in 1..Len(v) |->
                                     1 + Cardinality({ j \in 1..Len(v) :
                                                         \/ StrLess(v[j][key], v[i][key])
                                                         \/ v[j][key] = v[i][key] /\ j < i })] } }) :
             v \in { s } })

\* the keys of a defaultdict(list) filled from items, in insertion order
keys_of(items, key) ==
    TheOne({ [g \in 1..Len(firsts) |-> items[firsts[g]][key]] :
             firsts \in { SelectSeq([i \in 1..Len(items) |-> i],
                                    LAMBDA i : \A j \in 1..(i - 1) : items[j][key] # items[i][key]) } })

\* the defaultdict(list) itself, as the sequence of its (key, items) pairs
group_by(items, key) ==
    TheOne({ [g \in 1..Len(ks) |->
                [key |-> ks[g], items |-> SelectSeq(items, LAMBDA it : it[key] = ks[g])]] :
             ks \in { keys_of(items, key) } })

\* len(set(item['isin'] for item in items))
unique_isins(items) == Cardinality({ items[i].isin : i \in DOMAIN items })

\* what the run computes from a display name alone, computed once per name:
\* name_facts is the table of these values for the names of the holdings
NameFacts(names) ==
    [ nm \in names |->
        [ name_std |-> standardize_name(nm),
          goi_type |-> detect_goi_security(nm) ] ]

\* one aggregate row of the holdings query, parsed
load_item(isin, display_name, mv) ==
    LET parsed   == parse_isin(isin)
        name_std == name_facts[display_name].name_std
    IN  [ isin          |-> parsed.isin,
          country       |-> parsed.country,
          issuer_type   |-> parsed.issuer_type,
          issuer_code   |-> parsed.issuer_code,
          security_type |-> parsed.security_type,
          serial        |-> parsed.serial,
          check         |-> parsed.check,
          base_9        |-> parsed.base_9,
          name          |-> display_name,
          name_std      |-> name_std,
          name_cut      |-> Prefix(name_std, NAME_CUT_LENGTH),
          mv            |-> mv,
          sec_category  |-> get_security_category(parsed.security_type) ]

\* load_holdings_data: the holdings table has one aggregate per identifier
\* (GROUP BY isin_assigned), read in identifier order (ORDER BY isin_assigned)
load_holdings_data(table) ==
    sorted([i \in 1..Len(table) |-> load_item(table[i].isin, table[i].name, table[i].mv)],
           "isin")

\* isin in processed_isins
is_processed_never(isin, processed) == FALSE

is_processed(isin, processed) == isin \in processed

\* the rows of the government-paper pass
TbillRow(item) ==
    [ name_cut      |-> <<"g","o","v","e","r","n","m">>,
      category      |-> TBILL_AGGREGATE,
      action        |-> <<"A","G","G","R","E","G","A","T","E">>,
      reason        |-> <<"G","O","I"," ","T","-","B","i","l","l",","," ","a","g","g","r","e","g","a","t","e"," ","t","o"," ","s","y","n","t","h","e","t","i","c">>,
      isin_original |-> item.isin,
      isin_mapped   |-> <<"S","Y","N","G","O","I","T","B","I","L","L","0","1">>,
      name_original |-> Prefix(item.name, 60),
      name_mapped   |-> <<"G","O","I"," ","T","-","B","I","L","L">>,
      mv            |-> item.mv,
      issuer_code   |-> <<"G","O","I">>,
      is_target     |-> FALSE ]

GsecRow(item) ==
    [ name_cut      |-> <<"g","o","v","e","r","n","m">>,
      category      |-> GSEC_AGGREGATE,
      action        |-> <<"A","G","G","R","E","G","A","T","E">>,
      reason        |-> <<"G","O","I"," ","G","-","S","e","c"," ","(","d","a","t","e","d"," ","b","o","n","d",")",","," ","a","g","g","r","e","g","a","t","e"," ","t","o"," ","s","y","n","t","h","e","t","i","c">>,
      isin_original |-> item.isin,
      isin_mapped   |-> <<"S","Y","N","G","O","I","G","S","E","C","0","1">>,
      name_original |-> Prefix(item.name, 60),
      name_mapped   |-> <<"G","O","I"," ","G","-","S","E","C">>,
      mv            |-> item.mv,
      issuer_code   |-> <<"G","O","I">>,
      is_target     |-> FALSE ]

goi_tbills(items) == SelectSeq(items, LAMBDA item : name_facts[item.name].goi_type = "TBILL")
goi_gsecs(items)  == SelectSeq(items, LAMBDA item : name_facts[item.name].goi_type = "GSEC")

\* name_groups, in the order of sorted(name_groups.items())
name_groups_all(items, processed) ==
    sorted(group_by(SelectSeq(items, LAMBDA item : item.name_cut # <<>>), "name_cut"), "key")

name_groups(items, processed) ==
    sorted(group_by(SelectSeq(items, LAMBDA item : item.name_cut # <<>> /\ ~is_processed(item.isin, processed)),
                    "name_cut"),
           "key")

\* [i for i in items if i['isin'] not in processed_isins]
not_processed(items, processed) ==
    SelectSeq(items, LAMBDA i : ~is_processed(i.isin, processed))

\* sorted_items[-1]
newest_first(sorted_items) == sorted_items[1]

newest_of(sorted_items) == sorted_items[Len(sorted_items)]

\* len(unique_base9_isins) >= 2 and unique_base9_isins[0]['security_type'] == '01'
is_corporate_action_three(unique_base9_isins) ==
    Len(unique_base9_isins) >= 3 /\ unique_base9_isins[1].security_type = <<"0","1">>

is_corporate_action(unique_base9_isins) ==
    Len(unique_base9_isins) >= 2 /\ unique_base9_isins[1].security_type = <<"0","1">>

CorporateActionRow(name_cut, issuer_code, item, newest) ==
    LET is_target == item.isin = newest.isin
    IN  [ name_cut      |-> name_cut,
          category      |-> CORPORATE_ACTION,
          action        |-> IF is_target THEN <<"T","A","R","G","E","T">> ELSE <<"M","A","P">>,
          reason        |-> <<"S","a","m","e"," ","i","s","s","u","e","r"," ">> \o issuer_code \o <<","," ","e","q","u","i","t","y",","," ","s","e","r","i","a","l"," ">> \o item.serial
                            \o (IF is_target THEN <<" ","(","T","A","R","G","E","T"," ","-"," ","n","e","w","e","s","t",")">>
                                ELSE <<" ","-",">"," ">> \o newest.serial),
          isin_original |-> item.isin,
          isin_mapped   |-> newest.isin,
          name_original |-> Prefix(item.name, 60),
          name_mapped   |-> Prefix(newest.name, 60),
          mv            |-> item.mv,
          issuer_code   |-> issuer_code,
          is_target     |-> is_target ]

\* kind is the text "CD" or "CP"
AggregateRow(name_cut, issuer_code, item, kind, synthetic_isin, aggregated_name) ==
    [ name_cut      |-> name_cut,
      category      |-> kind \o <<"_","A","G","G","R","E","G","A","T","E">>,
      action        |-> <<"A","G","G","R","E","G","A","T","E">>,
      reason        |-> kind \o <<" ","f","o","r"," ","i","s","s","u","e","r"," ">> \o issuer_code \o <<","," ","a","g","g","r","e","g","a","t","e"," ","t","o"," ","s","y","n","t","h","e","t","i","c">>,
      isin_original |-> item.isin,
      isin_mapped   |-> synthetic_isin,
      name_original |-> Prefix(item.name, 60),
      name_mapped   |-> aggregated_name,
      mv            |-> item.mv,
      issuer_code   |-> issuer_code,
      is_target     |-> FALSE ]

NoActionRow(name_cut, issuer_code, item) ==
    [ name_cut      |-> name_cut,
      category      |-> NO_ACTION,
      action        |-> <<"N","O","N","E">>,
      reason        |-> <<"D","i","f","f","e","r","e","n","t"," ","i","s","s","u","e","r"," ">> \o issuer_code \o <<","," ","v","a","l","i","d"," ","s","e","p","a","r","a","t","e"," ","c","o","m","p","a","n","y">>,
      isin_original |-> item.isin,
      isin_mapped   |-> item.isin,
      name_original |-> Prefix(item.name, 60),
      name_mapped   |-> Prefix(item.name, 60),
      mv            |-> item.mv,
      issuer_code   |-> issuer_code,
      is_target     |-> FALSE ]

\* st is the pair of results['validation_rows'] and processed_isins
claim(st, new_rows) ==
    [ st EXCEPT !.rows      = @ \o new_rows,
                !.processed = @ \cup { new_rows[k].isin_original : k \in DOMAIN new_rows } ]

\* one base-prefix group of an issuer
check_corporate_action(st, name_cut, issuer_code, base9_items) ==
    TheOne({ IF is_corporate_action(unique_base9_isins)
             THEN TheOne({ claim(st, [k \in 1..Len(sorted_items) |->
                                        CorporateActionRow(name_cut, issuer_code, sorted_items[k],
                                                           newest_of(sorted_items))]) :
                           sorted_items \in { sorted(unique_base9_isins, "serial") } })
             ELSE st :
             unique_base9_isins \in { not_processed(base9_items, st.processed) } })

RECURSIVE for_each_base9(_, _, _, _)
for_each_base9(st, name_cut, issuer_code, by_base9) ==
    IF by_base9 = <<>> THEN st
    ELSE TheOne({ for_each_base9(next, name_cut, issuer_code, Tail(by_base9)) :
                  next \in { check_corporate_action(st, name_cut, issuer_code, Head(by_base9).items) } })

\* the certificates of deposit (kind "CD") or commercial papers (kind "CP") of an issuer
check_aggregate(st, name_cut, issuer_code, issuer_items, kind, sec_category) ==
    TheOne({ IF Len(members) >= 2
             THEN TheOne({ claim(st, [k \in 1..Len(members) |->
                                        AggregateRow(name_cut, issuer_code, members[k], kind,
                                                     generate_synthetic_isin(issuer_code, kind, 1),
                                                     aggregated_name)]) :
                           aggregated_name \in { generate_aggregated_name(members, kind) } })
             ELSE st :
             members \in { not_processed(SelectSeq(issuer_items, LAMBDA i : i.sec_category = sec_category),
                                         st.processed) } })

check_issuer(st, name_cut, issuer_code, issuer_items) ==
    IF unique_isins(issuer_items) < 2 THEN st
    ELSE TheOne({ check_aggregate(cd, name_cut, issuer_code, issuer_items, <<"C","P">>, "CP") :
                  cd \in { check_aggregate(ca, name_cut, issuer_code, issuer_items, <<"C","D">>, "CD") :
                           ca \in { for_each_base9(st, name_cut, issuer_code,
                                                   group_by(issuer_items, "base_9")) } } })

RECURSIVE for_each_issuer(_, _, _)
for_each_issuer(st, name_cut, by_issuer) ==
    IF by_issuer = <<>> THEN st
    ELSE TheOne({ for_each_issuer(next, name_cut, Tail(by_issuer)) :
                  next \in { check_issuer(st, name_cut, Head(by_issuer).key, Head(by_issuer).items) } })

\* len(by_issuer) > 1
different_issuers_three(by_issuer) == Len(by_issuer) > 2

different_issuers(by_issuer) == Len(by_issuer) > 1

RECURSIVE no_action_items(_, _, _)
no_action_items(st, name_cut, items) ==
    IF items = <<>> THEN st
    ELSE TheOne({ no_action_items(next, name_cut, Tail(items)) :
                  next \in { IF ~is_processed(Head(items).isin, st.processed)
                             THEN claim(st, <<NoActionRow(name_cut, Head(items).issuer_code, Head(items))>>)
                             ELSE st } })

RECURSIVE items_of(_)
\* the items of all issuers, issuer by issuer
items_of(by_issuer) ==
    IF by_issuer = <<>> THEN <<>> ELSE Head(by_issuer).items \o items_of(Tail(by_issuer))

check_no_action(st, name_cut, by_issuer) ==
    IF different_issuers(by_issuer) THEN no_action_items(st, name_cut, items_of(by_issuer))
    ELSE st

\* the body of the loop over the name groups
analyze_group(st, name_cut, items) ==
    TheOne({ TheOne({ check_no_action(after_issuers, name_cut, by_issuer) :
                      after_issuers \in { for_each_issuer(st, name_cut, by_issuer) } }) :
             by_issuer \in { group_by(items, "issuer_code") } })

\* the government-paper pass and the grouping by name key
GoiPass ==
    /\ rpc = "goi"
    /\ LET tbills == goi_tbills(data)
           gsecs  == goi_gsecs(data)
           claimed == { tbills[k].isin : k \in DOMAIN tbills } \cup { gsecs[k].isin : k \in DOMAIN gsecs }
       IN  /\ processed_isins' = claimed
           /\ validation_rows' = [k \in 1..Len(tbills) |-> TbillRow(tbills[k])]
                                 \o [k \in 1..Len(gsecs) |-> GsecRow(gsecs[k])]
           /\ pending' = name_groups(data, claimed)
    /\ rpc' = "groups"
    /\ UNCHANGED <<name_facts, data>>
    /\ UNCHANGED assignVars
    /\ UNCHANGED sheetVars
    /\ UNCHANGED restVars

\* len(items) >= 2 and len(unique_isins) >= 2: the group is analyzed
has_duplicates(items) == Len(items) >= 2 /\ unique_isins(items) >= 2

\* a name group of fewer than two identifiers
SkipGroup ==
    /\ rpc = "groups" /\ pending # <<>>
    /\ ~has_duplicates(Head(pending).items)
    /\ pending' = Tail(pending)
    /\ UNCHANGED <<name_facts, data, processed_isins, validation_rows, rpc>>
    /\ UNCHANGED assignVars
    /\ UNCHANGED sheetVars
    /\ UNCHANGED restVars

AnalyzeGroup ==
    /\ rpc = "groups" /\ pending # <<>>
    /\ has_duplicates(Head(pending).items)
    /\ \E st \in { analyze_group([rows |-> validation_rows, processed |-> processed_isins],
                                  Head(pending).key, Head(pending).items) } :
          /\ validation_rows' = st.rows
          /\ processed_isins' = st.processed
    /\ pending' = Tail(pending)
    /\ UNCHANGED <<name_facts, data, rpc>>
    /\ UNCHANGED assignVars
    /\ UNCHANGED sheetVars
    /\ UNCHANGED restVars

\* return results
ReturnResults ==
    /\ rpc = "groups" /\ pending = <<>>
    /\ rpc' = "done"
    /\ UNCHANGED <<name_facts, data, processed_isins, validation_rows, pending>>
    /\ UNCHANGED assignVars
    /\ UNCHANGED sheetVars
    /\ UNCHANGED restVars

\* results[category]
results(category) == SelectSeq(validation_rows, LAMBDA row : row.category = category)

-----------------------------------------------------------------------------
(* Ledgers the reconciliation is run on *)

NameAlpha     == <<"A","l","p","h","a"," ","B","a","n","k"," ","L","i","m","i","t","e","d">>
NameAlphaLtd  == <<"A","L","P","H","A"," ","B","A","N","K"," ","L","T","D">>
NameAlphaLong == <<"A","l","p","h","a"," ","B","a","n","k"," ","L","i","m","i","t","e","d"," ","E","q","u","i","t","y"," ","S","h","a","r","e","s"," ","F","u","l","l","y"," ","P","a","i","d"," ","U","p"," ","F","a","c","e"," ","V","a","l","u","e"," ","R","s"," ","1","0"," ","E","a","c","h">>
NameAlphaCP   == <<"A","l","p","h","a"," ","B","a","n","k"," ","L","t","d"," ","3","6","5","D"," ","C","P"," ","0","1","J","A","N","2","6">>
NameBeta      == <<"B","e","t","a"," ","C","o","r","p"," ","L","t","d"," ","C","D"," ","0","8","J","A","N","2","6">>
NameTbill     == <<"G","o","v","e","r","n","m","e","n","t"," ","o","f"," ","I","n","d","i","a"," ","3","6","4"," ","D","a","y","s"," ","T","B","I","L","L"," ","0","6","N","V","2","5">>
NameTbillCoupon == <<"G","o","v","e","r","n","m","e","n","t"," ","o","f"," ","I","n","d","i","a"," ","9","1"," ","D","a","y","s"," ","T","-","B","i","l","l"," ","6",".","8","5","%">>
NameGsec      == <<"G","O","I"," ","2","0","J","U","2","7"," ","7",".","3","8"," ","F","V"," ","R","S"," ","1","0","0">>
NameState     == <<"G","o","v","e","r","n","m","e","n","t"," ","o","f"," ","K","e","r","a","l","a"," ","S","D","L"," ","2","0","3","0">>

\* the identifiers of the holdings table, each with the display names it may
\* carry and its summed market value
HoldingCatalog == <<
    [isin |-> <<"I","N","E","7","7","7","C","0","1","0","1","2">>, names |-> {NameAlpha, NameBeta}, mv |-> 90],
    [isin |-> <<"I","N","E","0","1","2","A","0","1","0","4","9">>, names |-> {NameBeta}, mv |-> 40],
    [isin |-> <<"I","N","E","0","1","2","A","0","1","0","1","5">>, names |-> {NameAlpha, NameAlphaLong, NameTbill, <<>>}, mv |-> 10],
    [isin |-> <<"I","N","E","0","1","2","A","0","1","0","2","3">>, names |-> {NameAlpha, NameAlphaLtd, NameAlphaLong, NameTbill, <<>>}, mv |-> 20],
    [isin |-> <<"I","N","E","0","1","2","A","0","1","0","3","1">>, names |-> {NameAlpha, NameBeta}, mv |-> 30],
    [isin |-> <<"I","N","E","0","1","2","A","D","6","0","1","7">>, names |-> {NameAlpha, NameBeta}, mv |-> 60],
    [isin |-> <<"I","N","E","0","1","2","A","1","6","0","1","0">>, names |-> {NameAlpha, NameBeta}, mv |-> 50],
    [isin |-> <<"I","N","E","0","1","2","A","1","4","0","1","5">>, names |-> {NameAlpha, NameAlphaCP}, mv |-> 70],
    [isin |-> <<"I","N","E","0","1","2","A","1","4","0","2","3">>, names |-> {NameAlpha, NameBeta}, mv |-> 80],
    [isin |-> <<"I","N","0","0","2","0","2","5","X","0","1","9">>, names |-> {NameTbillCoupon}, mv |-> 5],
    [isin |-> <<"I","N","0","0","2","0","2","7","0","0","1","4">>, names |-> {NameGsec}, mv |-> 6],
    [isin |-> <<"I","N","1","5","2","0","2","5","0","0","1","7">>, names |-> {NameState}, mv |-> 7] >>

\* the holdings tables of at most n identifiers from the k-th of the catalog on
RECURSIVE Tables(_, _)
Tables(k, n) ==
    IF k > Len(HoldingCatalog) \/ n = 0 THEN { <<>> }
    ELSE Tables(k + 1, n)
         \cup { <<[isin |-> HoldingCatalog[k].isin, name |-> nm, mv |-> HoldingCatalog[k].mv]>> \o rest :
                  nm \in HoldingCatalog[k].names, rest \in Tables(k + 1, n - 1) }

-----------------------------------------------------------------------------
(* convert_mf_portfolio.py: find_grand_total *)

\* float(cell) of any cell: float(nan) is nan, [ok |-> FALSE] is ValueError
float_of_cell(cell) ==
    IF notna(cell) THEN [ok |-> float(cell).ok, nan |-> FALSE, v |-> float(cell).v]
    ELSE [ok |-> TRUE, nan |-> TRUE, v |-> 0]

\* float(row.iloc[market_value_col]): row.iloc[None] raises TypeError, which
\* the handler catches like the ValueError of float
value_at(row, market_value_col) ==
    IF market_value_col.none THEN [ok |-> FALSE, nan |-> FALSE, v |-> 0]
    ELSE float_of_cell(iloc(row, market_value_col.v))

\* the cells of the row, in column order, that are not blank and hold a
\* number greater than 10000
large_cells(row) ==
    { c \in 1..Len(row) : notna(row[c]) /\ float(row[c]).ok /\ float(row[c]).v > 10000 }

\* what the loop body returns for one row, if it returns
total_of_row(row, market_value_col) ==
    TheOne({ TheOne({
        IF Contains(row_str, <<"g","r","a","n","d"," ","t","o","t","a","l">>) /\ value_at(row, market_value_col).ok
        THEN [found |-> TRUE, nan |-> value_at(row, market_value_col).nan,
              value |-> value_at(row, market_value_col).v]
        ELSE IF large # {} /\ (Contains(row_str, <<"t","o","t","a","l"," ","n","e","t"," ","a","s","s","e","t","s">>) \/ first_cell_of(row) = <<"t","o","t","a","l">>)
        THEN [found |-> TRUE, nan |-> FALSE, value |-> float(row[Least(large)]).v]
        ELSE [found |-> FALSE, nan |-> FALSE, value |-> 0] :
        large \in { large_cells(row) } }) :
        row_str \in { Lower(JoinCells(row)) } })

\* (idx + 1, value) of the first row at which the loop returns, or (None, None)
find_grand_total(sheet, market_value_col) ==
    TheOne({ IF \A i \in DOMAIN sheet : ~per_row[i].found
             THEN [row |-> None, nan |-> FALSE, value |-> None]
             ELSE TheOne({ [row |-> Some(first), nan |-> per_row[first].nan,
                            value |-> Some(per_row[first].value)] :
                           first \in { Least({ i \in DOMAIN sheet : per_row[i].found }) } }) :
             per_row \in { [i \in DOMAIN sheet |-> total_of_row(sheet[i], market_value_col)] } })

\* the rows find_grand_total is run on: label, a second cell, the value cell
TotalRows == <<
    <<Txt(<<"G","r","a","n","d"," ","T","o","t","a","l">>), NaN, Num(350)>>,
    <<Txt(<<"G","R","A","N","D"," ","T","O","T","A","L">>), NaN, Txt(<<"n","/","a">>)>>,
    <<Txt(<<"G","r","a","n","d"," ","T","o","t","a","l">>), NaN, NaN>>,
    <<Txt(<<"T","o","t","a","l"," ","N","e","t"," ","A","s","s","e","t","s">>), Num(100), Num(20000)>>,
    <<Txt(<<"T","o","t","a","l"," ","N","e","t"," ","A","s","s","e","t","s">>), NaN, Num(9000)>>,
    <<Txt(<<" ","T","O","T","A","L"," ">>), Txt(<<"1","2","0","0","0">>), Num(50000)>>,
    <<Txt(<<"S","u","b"," ","T","o","t","a","l">>), NaN, Num(30000)>>,
    <<Txt(<<"A","l","p","h","a"," ","L","t","d">>), Txt(IsinA), Num(100)>>,
    <<Txt(<<"G","r","a","n","d"," ","T","o","t","a","l"," ","N","e","t"," ","A","s","s","e","t","s">>), Txt(<<"n","/","a">>), Num(20000)>> >>

TotalSheets == UNION { [1..n -> Range(TotalRows)] : n \in 0..MaxRows }

TotalInit ==
    total_call \in { [df |-> sheet, market_value_col |-> col, pc |-> "call",
                      out |-> [row |-> None, nan |-> FALSE, value |-> None]] :
                     sheet \in TotalSheets, col \in { None, Some(0), Some(1), Some(2) } }

FindGrandTotal ==
    /\ total_call.pc = "call"
    /\ total_call' = [total_call EXCEPT
                        !.out = find_grand_total(total_call.df, total_call.market_value_col),
                        !.pc  = "ret"]
    /\ UNCHANGED <<agg_call, fund_check>>
    /\ UNCHANGED <<assignVars, sheetVars, reconVars, fundVars, roundVars, ledgerVars>>

-----------------------------------------------------------------------------
(* convert_mf_portfolio.py: detect_schema *)

\* str(v).lower() if pd.notna(v) else ''
lower_text(v) == IF notna(v) THEN Lower(str(v)) ELSE <<>>

\* any(term in val_lower for term in terms)
any_term(val_lower, terms) == \E k \in DOMAIN terms : Contains(val_lower, terms[k])

name_terms     == << <<"i","n","s","t","r","u","m","e","n","t">>, <<"n","a","m","e"," ","o","f">>, <<"s","e","c","u","r","i","t","y">>, <<"c","o","m","p","a","n","y">> >>
value_terms    == << <<"m","a","r","k","e","t">>, <<"f","a","i","r"," ","v","a","l","u","e">>, <<"n","a","v">>, <<"v","a","l","u","e">> >>
quantity_terms == << <<"q","u","a","n","t","i","t","y">>, <<"q","t","y">>, <<"u","n","i","t","s">>, <<"n","o","s">> >>

\* the first row with a cell containing "isin", 0-indexed, or None
header_row(sheet) ==
    IF \A i \in DOMAIN sheet : \A c \in DOMAIN sheet[i] : ~Contains(lower_text(sheet[i][c]), <<"i","s","i","n">>)
    THEN None
    ELSE Some(Least({ i \in DOMAIN sheet :
                        \E c \in DOMAIN sheet[i] : Contains(lower_text(sheet[i][c]), <<"i","s","i","n">>) }) - 1)

NoColumns == [isin_col |-> None, name_col |-> None, market_value_col |-> None, quantity_col |-> None]

\* a chain in which a later cell takes a role over from an earlier one
column_of_last_match(val_lower, col_idx, cols) ==
    IF Contains(val_lower, <<"i","s","i","n">>)
    THEN [cols EXCEPT !.isin_col = Some(col_idx)]
    ELSE IF any_term(val_lower, name_terms)
    THEN [cols EXCEPT !.name_col = Some(col_idx)]
    ELSE IF any_term(val_lower, value_terms) /\ ~Contains(val_lower, <<"n","e","t">>)
    THEN [cols EXCEPT !.market_value_col = Some(col_idx)]
    ELSE IF any_term(val_lower, quantity_terms)
    THEN [cols EXCEPT !.quantity_col = Some(col_idx)]
    ELSE cols

\* one turn of the loop over the header cells: the if/elif chain
column_of(val_lower, col_idx, cols) ==
    IF Contains(val_lower, <<"i","s","i","n">>) /\ cols.isin_col.none
    THEN [cols EXCEPT !.isin_col = Some(col_idx)]
    ELSE IF any_term(val_lower, name_terms) /\ cols.name_col.none
    THEN [cols EXCEPT !.name_col = Some(col_idx)]
    ELSE IF any_term(val_lower, value_terms) /\ ~Contains(val_lower, <<"n","e","t">>) /\ cols.market_value_col.none
    THEN [cols EXCEPT !.market_value_col = Some(col_idx)]
    ELSE IF any_term(val_lower, quantity_terms) /\ cols.quantity_col.none
    THEN [cols EXCEPT !.quantity_col = Some(col_idx)]
    ELSE cols

RECURSIVE detect_columns(_, _, _)
\* for col_idx, val in enumerate(header), from the cell at position c on
detect_columns(header, c, cols) ==
    IF c > Len(header) THEN cols
    ELSE \* the columns found so far are bound before the next turn
         TheOne({ detect_columns(header, c + 1, found) :
                  found \in { column_of(lower_text(header[c]), c - 1, cols) } })

\* the rows after the header whose identifier text starts with 'IN', 0-indexed
data_rows(sheet, header, isin_col) ==
    { i \in (header + 1)..(Len(sheet) - 1) :
        /\ ~isin_col.none
        /\ StartsWith(text_or_empty(sheet[i + 1], isin_col.v), <<"I","N">>) }

data_start_row_or_next(sheet, header, isin_col) ==
    IF data_rows(sheet, header, isin_col) = {} THEN Some(header + 2)
    ELSE Some(Least(data_rows(sheet, header, isin_col)) + 1)

\* the 1-indexed first data row, or None
data_start_row(sheet, header, isin_col) ==
    IF data_rows(sheet, header, isin_col) = {} THEN None
    ELSE Some(Least(data_rows(sheet, header, isin_col)) + 1)

\* detect_schema(df): raises ValueError when there is no header row
detect_schema(sheet) ==
    IF header_row(sheet).none THEN [raised |-> TRUE, schema |-> <<>>]
    ELSE TheOne({ TheOne({
           [raised |-> FALSE,
            schema |-> [data_start_row   |-> data_start_row(sheet, header, cols.isin_col),
                        isin_col         |-> cols.isin_col,
                        name_col         |-> cols.name_col,
                        market_value_col |-> cols.market_value_col,
                        quantity_col     |-> cols.quantity_col,
                        grand_total_row  |-> total.row,
                        grand_total      |-> total.value,
                        grand_total_nan  |-> total.nan]] :
           total \in { find_grand_total(sheet, cols.market_value_col) } }) :
           header \in { header_row(sheet).v },
           cols \in { detect_columns(sheet[header_row(sheet).v + 1], 1, NoColumns) } })

-----------------------------------------------------------------------------
(* convert_mf_portfolio.py: process_fund *)

\* schema_override of the fund's entry of FUND_CONFIG replaces the columns
with_override(sc, cfg) ==
    IF ~cfg.schema_override THEN sc
    ELSE [sc EXCEPT !.name_col = Some(cfg.name_col), !.isin_col = Some(cfg.isin_col),
                    !.quantity_col = Some(cfg.quantity_col),
                    !.market_value_col = Some(cfg.market_value_col)]

\* chr(65 + col) of the four columns raises TypeError on a column that is None
prints_columns(sc) ==
    ~sc.isin_col.none /\ ~sc.name_col.none /\ ~sc.market_value_col.none /\ ~sc.quantity_col.none

start_idx_one_based(sc) == sc.data_start_row.v

\* start_idx = schema.data_start_row - 1
start_idx(sc) == sc.data_start_row.v - 1

\* the schema as process_sheet reads it once its columns and start row are set
as_read(sc) ==
    [data_start_row |-> sc.data_start_row.v, isin_col |-> sc.isin_col.v, name_col |-> sc.name_col.v,
     market_value_col |-> sc.market_value_col.v, quantity_col |-> sc.quantity_col.v]

\* the sheet rows process_fund is run on
FundRows == {
    <<Txt(<<"N","a","m","e"," ","o","f"," ","t","h","e"," ","I","n","s","t","r","u","m","e","n","t">>), Txt(<<"I","S","I","N">>), Txt(<<"M","a","r","k","e","t","/","F","a","i","r"," ","V","a","l","u","e">>), Txt(<<"Q","u","a","n","t","i","t","y">>)>>,
    <<Txt(<<"C","o","m","p","a","n","y">>), Txt(<<"I","S","I","N">>), Txt(<<"%"," ","t","o"," ","N","e","t"," ","A","s","s","e","t","s">>), Txt(<<"U","n","i","t","s">>)>>,
    <<Txt(<<"A","l","p","h","a"," ","L","t","d">>), Txt(IsinA), Num(100), Num(5)>>,
    <<Txt(<<"B","e","t","a"," ","L","t","d">>), Txt(<<" ","I","N","E","0","0","0","0","0","0","0","2","8">>), Num(200), NaN>>,
    <<Txt(<<"G","a","m","m","a"," ","L","t","d">>), Txt(<<"i","n","e","0","0","0","0","0","0","0","3","6">>), Num(30), NaN>>,
    <<Txt(<<"G","r","a","n","d"," ","T","o","t","a","l">>), NaN, Num(350), NaN>>,
    <<Txt(<<"S","u","b"," ","T","o","t","a","l">>), NaN, Num(150), NaN>>,
    <<Txt(<<"R","e","v","e","r","s","e"," ","R","e","p","o">>), NaN, Num(70), NaN>>,
    <<Txt(<<"R","E","V","E","R","S","E"," ","R","E","P","O"," ","(","1","5"," ","D","e","c"," ","2","0","2","5",")">>), NaN, Num(70), NaN>> }

FundSheets == UNION { [1..n -> FundRows] : n \in 0..MaxFundRows }

\* entries of FUND_CONFIG: without and with a schema_override
FundConfigs == {
    [schema_override |-> FALSE, name_col |-> 0, isin_col |-> 0, quantity_col |-> 0, market_value_col |-> 0],
    [schema_override |-> TRUE, name_col |-> 0, isin_col |-> 1, quantity_col |-> 3, market_value_col |-> 2] }

\* the rows the database holds for the fund-period before the run: an
\* earlier conversion of the same fund and month has been stored
PersistedHoldings == {
    << [isin_original |-> IsinB, isin_assigned |-> IsinB, instrument_name |-> <<"B","e","t","a"," ","L","t","d">>,
        market_value |-> 200, quantity |-> 0, nse_symbol |-> <<>>, name_nsdl |-> <<>>,
        name_final |-> <<"B","e","t","a"," ","L","t","d">>, isin_mapped |-> IsinB, name_mapped |-> <<"B","e","t","a"," ","L","t","d">>,
        mapping_category |-> <<>>, mapping_reason |-> <<>>] >> }

FundInit ==
    /\ df \in FundSheets
    /\ config \in FundConfigs
    /\ holdings \in PersistedHoldings
    /\ schema = <<>>
    /\ isin_mapping = EmptyTable
    /\ validation_mapping = EmptyTable
    /\ facts = <<>>
    /\ idx = 0
    /\ rows = <<>>
    /\ unmapped = <<>>
    /\ calculated_total = 0
    /\ trace = <<>>
    /\ pc = "off"
    /\ fpc = "detect"

FundStep(to) ==
    /\ fpc' = to
    /\ UNCHANGED <<df, isin_mapping, validation_mapping, rows, unmapped, calculated_total, trace>>
    /\ UNCHANGED <<config>>
    /\ UNCHANGED <<assignVars, reconVars, callVars, roundVars, ledgerVars>>

\* schema = detect_schema(df), then the overrides of the config
DetectSchema ==
    /\ fpc = "detect"
    /\ \E found \in { detect_schema(df) } :
          IF found.raised
          THEN FundStep("error") /\ UNCHANGED <<schema, facts, idx, pc, holdings>>
          ELSE /\ schema' = with_override(found.schema, config)
               /\ FundStep("print")
               /\ UNCHANGED <<facts, idx, pc, holdings>>

\* the prints of the detected schema
PrintSchema ==
    /\ fpc = "print"
    /\ FundStep(IF prints_columns(schema) THEN "sheet" ELSE "error")
    /\ UNCHANGED <<schema, facts, idx, pc, holdings>>

\* process_sheet(df, schema, ...) up to its loop: None - 1 raises TypeError
StartWalk ==
    /\ fpc = "sheet"
    /\ pc = "off"
    /\ IF schema.data_start_row.none
       THEN FundStep("error") /\ UNCHANGED <<schema, facts, idx, pc, holdings>>
       ELSE /\ schema' = as_read(schema)
            /\ facts' = SheetFacts(df, as_read(schema))
            /\ idx' = start_idx(schema)
            /\ pc' = "walk"
            /\ FundStep("sheet")
            /\ UNCHANGED holdings

\* init_database, insert_to_database: DELETE the rows of the fund-period, then
\* INSERT the rows of the walk, and commit
InsertToDatabase ==
    /\ fpc = "sheet"
    /\ pc = "done"
    /\ holdings' = rows
    /\ FundStep("done")
    /\ UNCHANGED <<schema, facts, idx, pc>>

FundNext ==
    \/ DetectSchema
    \/ PrintSchema
    \/ StartWalk
    \/ Stop
    \/ EndOfSheet
    \/ SkipAggregation
    \/ SkipReverseRepo
    \/ SkipZero
    \/ Emit
    \/ InsertToDatabase

-----------------------------------------------------------------------------
(* isin_validation_mapping.py: write_mapping_file *)

RECURSIVE Join(_, _)
\* sep.join(parts), parts being a short list
Join(parts, sep) ==
    IF parts = <<>> THEN <<>>
    ELSE IF Len(parts) = 1 THEN parts[1]
    ELSE parts[1] \o sep \o Join(Tail(parts), sep)

Tab     == <<"\t">>
Newline == <<"\n">>

\* '\t'.join(headers)
mapping_headers ==
    Join(<< <<"i","s","i","n","_","o","r","i","g","i","n","a","l">>, <<"i","s","i","n","_","m","a","p","p","e","d">>, <<"n","a","m","e","_","m","a","p","p","e","d">>, <<"c","a","t","e","g","o","r","y">>, <<"r","e","a","s","o","n">> >>, Tab)

\* the line of one row
mapping_line(row, category) ==
    Join(<<row.isin_original, row.isin_mapped, row.name_mapped, category, row.reason>>, Tab)

\* the rows of results[category] that get a line: of the corporate actions
\* only those with action MAP
is_written_any(row, category) == row.category = category

is_written(row, category) ==
    /\ row.category = category
    /\ category = CORPORATE_ACTION => row.action = <<"M","A","P">>

\* the lines appended for results[category], in the order of the list
lines_of(result_rows, category) ==
    TheOne({ [k \in DOMAIN written |-> mapping_line(written[k], category)] :
             written \in { SelectSeq(result_rows, LAMBDA row : is_written(row, category)) } })

\* lines, and the text f.write('\n'.join(lines)) leaves in the file
write_mapping_file(result_rows) ==
    TheOne({ [lines |-> lines, text |-> Join(lines, Newline)] :
             lines \in { <<mapping_headers>>
                         \o lines_of(result_rows, CORPORATE_ACTION)
                         \o lines_of(result_rows, CD_AGGREGATE)
                         \o lines_of(result_rows, CP_AGGREGATE)
                         \o lines_of(result_rows, TBILL_AGGREGATE)
                         \o lines_of(result_rows, GSEC_AGGREGATE) } })

-----------------------------------------------------------------------------
(* convert_mf_portfolio.py: load_isin_validation_mapping *)

\* s.split(sep) for a separator of one character out of seps: the pieces of s
\* between the separators, in order
Split(s, seps) ==
    TheOne({ TheOne({
        [k \in 1..(Cardinality(cuts) + 1) |->
            SubSeq(s, IF k = 1 THEN 1 ELSE ends[k - 1] + 1, ends[k] - 1)] :
        ends \in { [k \in 1..(Cardinality(cuts) + 1) |->
                      CHOOSE i \in cuts \cup {Len(s) + 1} :
                          Cardinality({ j \in cuts : j < i }) = k - 1] } }) :
        cuts \in { { i \in 1..Len(s) : s[i] \in seps } } })

\* f.readlines(): the file is read with universal newlines
readlines(text) == Split(text, {"\n", "\r"})

\* parts = line.strip().split('\t')
parts_of(line) == Split(Strip(line), {"\t"})

\* the entry of a line of three or more parts
mapping_entry(parts) ==
    [isin_mapped |-> parts[2],
     name_mapped |-> parts[3],
     category    |-> IF Len(parts) >= 4 THEN parts[4] ELSE <<>>,
     reason      |-> IF Len(parts) >= 5 THEN parts[5] ELSE <<>>]

\* the dict built from lines[1:]: a later line replaces an earlier one of
\* the same isin_original
load_isin_validation_mapping(text) ==
    TheOne({ TheOne({
        [key \in { parts[k][1] : k \in used } |->
            mapping_entry(parts[CHOOSE k \in used :
                                  /\ parts[k][1] = key
                                  /\ \A m \in used : parts[m][1] = key => m <= k])] :
        used \in { { k \in 2..Len(parts) : Len(parts[k]) >= 3 } } }) :
        parts \in { [k \in DOMAIN readlines(text) |-> parts_of(readlines(text)[k])] } })

-----------------------------------------------------------------------------
(* The two scripts in turn: conversion, reconciliation, mapping file, *)
(* conversion with the mapping, reconciliation                        *)

\* the aggregates of the holdings query of load_holdings_data over the rows
\* of the holdings table, each identifier being held in one row:
\* WHERE isin_assigned != 'IN9999999999' AND LENGTH(isin_assigned) >= 12,
\* and display_name = name_final or instrument_name or ''
holdings_query(stored) ==
    TheOne({ [k \in DOMAIN kept |->
                [isin |-> kept[k].isin_assigned,
                 name |-> IF kept[k].name_final # <<>> THEN kept[k].name_final
                          ELSE kept[k].instrument_name,
                 mv   |-> kept[k].market_value]] :
             kept \in { SelectSeq(stored, LAMBDA r : r.isin_assigned # ISIN_OTHER
                                                     /\ Len(r.isin_assigned) >= 12) } })

NameAlphaWrapped == <<"A","l","p","h","a"," ","B","a","n","k","\n","L","i","m","i","t","e","d">>

\* the holdings of the sheet the round is run on, each with the names its
\* cell may hold; a name cell may hold a line break
RoundCatalog == <<
    [isin |-> <<"I","N","E","0","1","2","A","0","1","0","1","5">>, names |-> {NameAlpha, NameAlphaWrapped}, mv |-> 10],
    [isin |-> <<"I","N","E","0","1","2","A","0","1","0","2","3">>, names |-> {NameAlpha, NameAlphaWrapped}, mv |-> 20],
    [isin |-> <<"I","N","E","0","1","2","A","1","6","0","1","0">>, names |-> {NameAlpha}, mv |-> 50],
    [isin |-> <<"I","N","E","0","1","2","A","D","6","0","1","7">>, names |-> {NameAlpha}, mv |-> 60],
    [isin |-> <<"I","N","E","7","7","7","C","0","1","0","1","2">>, names |-> {NameAlpha}, mv |-> 90],
    [isin |-> <<"I","N","0","0","2","0","2","5","X","0","1","9">>, names |-> {NameTbillCoupon}, mv |-> 5],
    [isin |-> <<"I","N","0","0","2","0","2","7","0","0","1","4">>, names |-> {NameGsec}, mv |-> 6] >>

\* the sheets of at most n holdings from the k-th of the catalog on: name,
\* identifier, market value, quantity
RECURSIVE RoundSheets(_, _)
RoundSheets(k, n) ==
    IF k > Len(RoundCatalog) \/ n = 0 THEN { <<>> }
    ELSE RoundSheets(k + 1, n)
         \cup { << <<Txt(nm), Txt(RoundCatalog[k].isin), Num(RoundCatalog[k].mv), NaN>> >> \o rest :
                  nm \in RoundCatalog[k].names, rest \in RoundSheets(k + 1, n - 1) }

\* the first conversion: no mapping file exists yet
RoundInit ==
    /\ name_facts = NameFacts(UNION { RoundCatalog[k].names : k \in DOMAIN RoundCatalog })
    /\ df \in RoundSheets(1, MaxRoundItems)
    /\ schema = [data_start_row |-> 1, isin_col |-> 1, name_col |-> 0,
                 market_value_col |-> 2, quantity_col |-> 3]
    /\ isin_mapping = EmptyTable
    /\ validation_mapping = EmptyTable
    /\ facts = SheetFacts(df, schema)
    /\ idx = schema.data_start_row - 1
    /\ rows = <<>>
    /\ unmapped = <<>>
    /\ calculated_total = 0
    /\ trace = <<>>
    /\ pc = "walk"
    /\ config = [schema_override |-> FALSE, name_col |-> 0, isin_col |-> 0,
                 quantity_col |-> 0, market_value_col |-> 0]
    /\ holdings = <<>>
    /\ fpc = "sheet"
    /\ data = <<>> /\ processed_isins = {} /\ validation_rows = <<>>
    /\ pending = <<>> /\ rpc = "off"
    /\ mapping_file = <<>> /\ first_mapping = <<>> /\ pass = 1

\* data = load_holdings_data(db_path) and the start of detect_and_categorize
LoadHoldingsData ==
    /\ fpc = "done"
    /\ rpc = "off"
    /\ data' = load_holdings_data(holdings_query(holdings))
    /\ processed_isins' = {}
    /\ validation_rows' = <<>>
    /\ pending' = <<>>
    /\ rpc' = "goi"
    /\ UNCHANGED name_facts
    /\ UNCHANGED <<assignVars, sheetVars, restVars>>

\* write_mapping_file(results, output_path) after the first reconciliation
WriteMappingFile ==
    /\ rpc = "done"
    /\ pass = 1
    /\ mapping_file = <<>>
    /\ mapping_file' = write_mapping_file(validation_rows)
    /\ first_mapping' = validation_rows
    /\ UNCHANGED pass
    /\ UNCHANGED <<assignVars, sheetVars, reconVars, callVars, fundVars, ledgerVars>>

\* the second conversion: load_isin_validation_mapping(mapping_file), then
\* process_fund on the same sheet up to the loop of process_sheet
LoadMapping ==
    /\ pass = 1
    /\ mapping_file # <<>>
    /\ validation_mapping' = load_isin_validation_mapping(mapping_file.text)
    /\ idx' = schema.data_start_row - 1
    /\ rows' = <<>>
    /\ unmapped' = <<>>
    /\ calculated_total' = 0
    /\ trace' = <<>>
    /\ pc' = "walk"
    /\ fpc' = "sheet"
    /\ rpc' = "off"
    /\ pass' = 2
    /\ UNCHANGED <<df, schema, isin_mapping, facts>>
    /\ UNCHANGED <<config, holdings>>
    /\ UNCHANGED <<name_facts, data, processed_isins, validation_rows, pending>>
    /\ UNCHANGED <<mapping_file, first_mapping>>
    /\ UNCHANGED <<assignVars, callVars, ledgerVars>>

\* the sheets of the round hold rows of holdings only: every row is emitted
RoundNext ==
    \/ Emit
    \/ EndOfSheet
    \/ InsertToDatabase
    \/ LoadHoldingsData
    \/ GoiPass
    \/ SkipGroup
    \/ AnalyzeGroup
    \/ ReturnResults
    \/ WriteMappingFile
    \/ LoadMapping

-----------------------------------------------------------------------------
(* validate_conversions.py: validate_fund *)

\* DIFF_THRESHOLD_PCT = 0.0001, as a fraction
DIFF_THRESHOLD_PCT == [num |-> 1, den |-> 10000]

\* abs(n)
abs(n) == IF n < 0 THEN -n ELSE n

\* n / d <= q.num / q.den for d # 0 and q.den > 0, the quotient taken exactly
QuotientAtMost(n, d, q) ==
    IF d > 0 THEN n * q.den <= q.num * d ELSE n * q.den >= q.num * d

\* diff_pct <= DIFF_THRESHOLD_PCT with diff_pct = diff / excel_total
within_threshold(diff, excel_total) ==
    QuotientAtMost(diff, excel_total, DIFF_THRESHOLD_PCT)

\* the status and the difference validate_fund reports for the persisted sum
\* db_total and the declared total excel_total
validate_fund(db_total, excel_total) ==
    IF excel_total.none THEN [status |-> "NO_EXCEL_TOTAL", difference |-> None]
    ELSE IF excel_total.v = 0 THEN [status |-> "ZERO_EXCEL_TOTAL", difference |-> None]
    ELSE [status     |-> IF within_threshold(abs(db_total - excel_total.v), excel_total.v)
                         THEN "PASS" ELSE "FAIL",
          difference |-> Some(abs(db_total - excel_total.v))]

\* the declared totals and the persisted sums validate_fund is run on
ExcelTotals == { None, Some(0), Some(10000), Some(-10000), Some(100000), Some(-100000) }

DbTotals == { 0, 9999, 10000, 10001, 10002, -9999, -10000, -10001,
              99989, 99990, 100000, 100010, 100011, -99990, -100000 }

ValidateInit ==
    fund_check \in { [db_total |-> d, excel_total |-> e, status |-> "UNKNOWN", difference |-> None] :
                     d \in DbTotals, e \in ExcelTotals }

ValidateFund ==
    /\ fund_check.status = "UNKNOWN"
    /\ fund_check' = [fund_check EXCEPT
                        !.status     = validate_fund(fund_check.db_total, fund_check.excel_total).status,
                        !.difference = validate_fund(fund_check.db_total, fund_check.excel_total).difference]
    /\ UNCHANGED <<agg_call, total_call>>
    /\ UNCHANGED <<assignVars, sheetVars, reconVars, fundVars, roundVars, ledgerVars>>

\* a lookup by the fund code alone
get_comment_by_fund(fund_code, month_end, comments) ==
    IF \E key \in DOMAIN comments : StartsWith(key, fund_code)
    THEN comments[CHOOSE key \in DOMAIN comments : StartsWith(key, fund_code)]
    ELSE <<>>

\* key = f"{fund_code}_{month_end}"; comments.get(key, "")
get_comment(fund_code, month_end, comments) ==
    IF (fund_code \o <<"_">> \o month_end) \in DOMAIN comments
    THEN comments[fund_code \o <<"_">> \o month_end]
    ELSE <<>>

\* the result dict of validate_fund without its timestamp and row count;
\* diff_pct is the quotient diff / excel_total, kept as the pair of the two
validation_result(fund_code, month_end, comments, db_total, excel_total) ==
    [ fund_code         |-> fund_code,
      month_end         |-> month_end,
      excel_grand_total |-> excel_total,
      db_total          |-> db_total,
      difference        |-> validate_fund(db_total, excel_total).difference,
      diff_pct          |-> IF validate_fund(db_total, excel_total).difference.none THEN None
                            ELSE Some(<<abs(db_total - excel_total.v), excel_total.v>>),
      status            |-> validate_fund(db_total, excel_total).status,
      manual_review     |-> get_comment(fund_code, month_end, comments) ]

\* fund codes, month ends and the comments a reviewer has entered for some of
\* the fund-months; validation_comments.json holds them under "FUND_MONTH"
CommentFunds  == { <<"H","D","F","C","M","I","D","C","A","P">>, <<"H","D","F","C">> }
CommentMonths == { <<"2","0","2","5","-","1","1","-","3","0">>, <<"2","0","2","5","-","1","2","-","3","1">> }

CommentOn(fund_code, month_end) ==
    <<"R","e","v","i","e","w","e","d"," ">> \o fund_code \o <<" ">> \o month_end

CommentFiles ==
    { [key \in { fm[1] \o <<"_">> \o fm[2] : fm \in reviewed } |->
          CommentOn((CHOOSE fm \in reviewed : fm[1] \o <<"_">> \o fm[2] = key)[1],
                    (CHOOSE fm \in reviewed : fm[1] \o <<"_">> \o fm[2] = key)[2])] :
      reviewed \in SUBSET (CommentFunds \X CommentMonths) }

CommentsInit ==
    fund_check \in { [fund_code |-> f, month_end |-> m, comments |-> c,
                      db_total |-> d, excel_total |-> e, result |-> <<>>] :
                     f \in CommentFunds, m \in CommentMonths, c \in CommentFiles,
                     d \in {9999, 10000, 10002}, e \in {None, Some(0), Some(10000)} }

\* result = validate_fund(fund_code, month_end, comments)
ValidateWithComments ==
    /\ fund_check.result = <<>>
    /\ fund_check' = [fund_check EXCEPT
                        !.result = validation_result(fund_check.fund_code, fund_check.month_end,
                                                     fund_check.comments, fund_check.db_total,
                                                     fund_check.excel_total)]
    /\ UNCHANGED <<agg_call, total_call>>
    /\ UNCHANGED <<assignVars, sheetVars, reconVars, fundVars, roundVars, ledgerVars>>

-----------------------------------------------------------------------------
(* convert_mf_portfolio.py: insert_to_database on a database shared by the
   ingestions of several fund-periods *)

\* In the runs below holdings is the whole table in rowid order, each entry
\* with its scheme_name, its month_end and the ProcessedRow it was made of;
\* ingestions has the runs ("jobs"), the table before the first of them
\* ("before") and the runs that have committed, in commit order ("log").

\* a ProcessedRow of a holding without registry or mapping entry
HoldingRow(isin, name, value) ==
    [isin_original |-> isin, isin_assigned |-> isin, instrument_name |-> name,
     market_value |-> value, quantity |-> 0, nse_symbol |-> <<>>, name_nsdl |-> <<>>,
     name_final |-> name, isin_mapped |-> isin, name_mapped |-> name,
     mapping_category |-> <<>>, mapping_reason |-> <<>>]

\* the rows process_sheet has returned for the sheets that are ingested
EmittedRowLists == {
    <<HoldingRow(IsinA, <<"A","l","p","h","a"," ","L","t","d">>, 100), HoldingRow(IsinB, <<"B","e","t","a"," ","L","t","d">>, 200)>>,
    <<HoldingRow(IsinB, <<"B","e","t","a"," ","L","t","d">>, 250)>>,
    <<>> }

\* the fund-periods that are ingested: fund codes of FUND_CONFIG and month
\* ends, two months of one fund and one month of two funds
LedgerKeys == {
    << <<"A","X","I","S","M","C","F">>, <<"2","0","2","5","-","1","1","-","3","0">> >>,
    << <<"A","X","I","S","M","C","F">>, <<"2","0","2","5","-","1","2","-","3","1">> >>,
    << <<"H","D","F","C","M","I","D","C","A","P">>, <<"2","0","2","5","-","1","1","-","3","0">> >> }

\* the table before the runs: an earlier conversion of one of the
\* fund-periods, and the rows of a fund that is not ingested
StoredBefore == <<
    [scheme_name |-> <<"A","X","I","S","M","C","F">>, month_end |-> <<"2","0","2","5","-","1","1","-","3","0">>,
     row |-> HoldingRow(IsinB, <<"B","e","t","a"," ","L","t","d">>, 200)],
    [scheme_name |-> <<"S","B","I","S","M","A","L","L","C","A","P">>, month_end |-> <<"2","0","2","5","-","1","1","-","3","0">>,
     row |-> HoldingRow(IsinA, <<"A","l","p","h","a"," ","L","t","d">>, 100)] >>

Workers == 1..MaxWorkers

\* a DELETE that goes by the scheme alone
delete_existing_by_scheme(table, scheme_name, month_end) ==
    SelectSeq(table, LAMBDA h : h.scheme_name # Upper(scheme_name))

\* no DELETE at all
delete_existing_none(table, scheme_name, month_end) == table

\* DELETE FROM holdings WHERE scheme_name = ? AND month_end = ?, with
\* scheme_name.upper()
delete_existing(table, scheme_name, month_end) ==
    SelectSeq(table, LAMBDA h : ~(h.scheme_name = Upper(scheme_name) /\ h.month_end = month_end))

\* INSERT INTO holdings (...) VALUES (scheme_name.upper(), month_end, ...)
insert_row(table, scheme_name, month_end, row) ==
    Append(table, [scheme_name |-> Upper(scheme_name), month_end |-> month_end, row |-> row])

LedgerInit ==
    /\ holdings = StoredBefore
    /\ ingestions \in
         { [jobs |-> jobs, before |-> StoredBefore, log |-> <<>>] :
             jobs \in [Workers -> { [scheme_name |-> key[1], month_end |-> key[2], rows |-> r,
                                    at |-> "ready", inserted |-> 0] :
                                    key \in LedgerKeys, r \in EmittedRowLists }] }
    /\ config = <<>>
    /\ fpc = "ledger"

\* a run of the same fund-period is between its DELETE and its commit
InProgress(scheme_name, month_end) ==
    \E w \in Workers :
       /\ ingestions.jobs[w].at = "insert"
       /\ ingestions.jobs[w].scheme_name = scheme_name
       /\ ingestions.jobs[w].month_end = month_end

LedgerStep(w, at, inserted) ==
    /\ ingestions' = [ingestions EXCEPT !.jobs[w].at = at, !.jobs[w].inserted = inserted]
    /\ UNCHANGED <<config, fpc>>
    /\ UNCHANGED <<assignVars, sheetVars, reconVars, callVars, roundVars>>

\* cursor.execute('DELETE ...'): the runs of one fund-period follow one another,
\* the runs of different fund-periods take their steps in any order
DeleteExisting ==
    \E w \in Workers : \E job \in { ingestions.jobs[w] } :
       /\ job.at = "ready"
       /\ ~InProgress(job.scheme_name, job.month_end)
       /\ holdings' = delete_existing(holdings, job.scheme_name, job.month_end)
       /\ LedgerStep(w, "insert", 0)

\* one turn of 'for row in rows': cursor.execute('INSERT ...')
InsertRow ==
    \E w \in Workers : \E job \in { ingestions.jobs[w] } :
       /\ job.at = "insert"
       /\ job.inserted < Len(job.rows)
       /\ holdings' = insert_row(holdings, job.scheme_name, job.month_end,
                                 job.rows[job.inserted + 1])
       /\ LedgerStep(w, "insert", job.inserted + 1)

\* conn.commit(); return inserted
Commit ==
    \E w \in Workers : \E job \in { ingestions.jobs[w] } :
       /\ job.at = "insert"
       /\ job.inserted = Len(job.rows)
       /\ ingestions' = [ingestions EXCEPT
                           !.jobs[w].at = "done",
                           !.log = Append(@, [scheme_name |-> Upper(job.scheme_name),
                                              month_end |-> job.month_end,
                                              rows |-> job.rows])]
       /\ UNCHANGED <<config, holdings, fpc>>
       /\ UNCHANGED <<assignVars, sheetVars, reconVars, callVars, roundVars>>

LedgerNext == DeleteExisting \/ InsertRow \/ Commit

-----------------------------------------------------------------------------
(* Specifications *)

AssignIdle ==
    a_isin = <<>> /\ a_name = <<>> /\ a_out = <<>> /\ a_pc = "off"

SheetIdle ==
    /\ df = <<>> /\ schema = <<>> /\ isin_mapping = <<>> /\ validation_mapping = <<>>
    /\ facts = <<>>
    /\ idx = 0 /\ rows = <<>> /\ unmapped = <<>> /\ calculated_total = 0
    /\ trace = <<>> /\ pc = "off"

ReconIdle ==
    /\ name_facts = <<>>
    /\ data = <<>> /\ processed_isins = {} /\ validation_rows = <<>>
    /\ pending = <<>> /\ rpc = "off"

\* a call of assign_isin on some string
CallsIdle ==
    agg_call = <<>> /\ total_call = <<>> /\ fund_check = <<>>

FundIdle ==
    config = <<>> /\ holdings = <<>> /\ fpc = "off"

RoundIdle ==
    mapping_file = <<>> /\ first_mapping = <<>> /\ pass = 0

LedgerIdle == ingestions = <<>>

AssignInit ==
    /\ a_isin \in AssignInputs
    /\ a_name \in AssignNames
    /\ a_out = <<>>
    /\ a_pc = "call"

AssignIsin ==
    /\ a_pc = "call"
    /\ a_out' = assign_isin(a_isin, a_name)
    /\ a_pc' = "ret"
    /\ UNCHANGED <<a_isin, a_name>>
    /\ UNCHANGED sheetVars
    /\ UNCHANGED reconVars
    /\ UNCHANGED restVars

\* a call of process_sheet on some sheet, schema and lookup tables
SheetInit ==
    /\ df \in Sheets
    /\ schema \in Schemas
    /\ isin_mapping \in Registries
    /\ validation_mapping \in Mappings
    /\ facts = SheetFacts(df, schema)
    /\ idx = schema.data_start_row - 1
    /\ rows = <<>>
    /\ unmapped = <<>>
    /\ calculated_total = 0
    /\ trace = <<>>
    /\ pc = "walk"

SheetNext ==
    \/ Stop
    \/ EndOfSheet
    \/ SkipAggregation
    \/ SkipReverseRepo
    \/ SkipZero
    \/ Emit

InitAssign == AssignInit /\ SheetIdle /\ ReconIdle /\ CallsIdle /\ FundIdle /\ RoundIdle /\ LedgerIdle

InitSheet == AssignIdle /\ SheetInit /\ ReconIdle /\ CallsIdle /\ FundIdle /\ RoundIdle /\ LedgerIdle

SpecAssign == InitAssign /\ [][AssignIsin]_vars

SpecSheet == InitSheet /\ [][SheetNext]_vars

\* a call of detect_and_categorize(load_holdings_data(db_path))
ReconInit ==
    /\ name_facts = NameFacts(UNION { HoldingCatalog[k].names : k \in DOMAIN HoldingCatalog })
    /\ data \in { load_holdings_data(t) : t \in Tables(1, MaxItems) }
    /\ processed_isins = {}
    /\ validation_rows = <<>>
    /\ pending = <<>>
    /\ rpc = "goi"

ReconNext ==
    \/ GoiPass
    \/ SkipGroup
    \/ AnalyzeGroup
    \/ ReturnResults

InitRecon == AssignIdle /\ SheetIdle /\ ReconInit /\ CallsIdle /\ FundIdle /\ RoundIdle /\ LedgerIdle

SpecRecon == InitRecon /\ [][ReconNext]_vars

\* a call of is_aggregation_row(name, isin, full_row_text) on a row of two cells
AggNames == { <<"D","e","b","t">>, <<"d","e","b","t"," ","i","n","s","t","r","u","m","e","n","t","s">>, <<" ","O","t","h","e","r","s"," ">>, <<"U","n","l","i","s","t","e","d"," ","A","l","p","h","a"," ","L","t","d">>,
              <<"A","l","p","h","a"," ","L","t","d">>, <<>> }

AggIsins == { <<>>, IsinA, IsinA \o <<"X">>, <<"i","n","e","0","0","0","0","0","0","0","2","8">>, <<"I","N","E","0","0">>, <<"X","N","E","0","0","0","0","0","0","0","1","0">> }

AggInit ==
    agg_call \in { [name |-> n, isin |-> i,
                    full_row_text |-> IF joined THEN JoinCells(<<Txt(n), Txt(i)>>) ELSE <<>>,
                    out |-> FALSE, pc |-> "call"] :
                   n \in AggNames, i \in AggIsins, joined \in BOOLEAN }

IsAggregationRow ==
    /\ agg_call.pc = "call"
    /\ agg_call' = [agg_call EXCEPT
                      !.out = is_aggregation_row(agg_call.name, agg_call.isin, agg_call.full_row_text),
                      !.pc  = "ret"]
    /\ UNCHANGED <<total_call, fund_check>>
    /\ UNCHANGED <<assignVars, sheetVars, reconVars, fundVars, roundVars, ledgerVars>>

InitAggregation ==
    /\ AssignIdle /\ SheetIdle /\ ReconIdle /\ FundIdle /\ RoundIdle /\ LedgerIdle
    /\ AggInit /\ total_call = <<>> /\ fund_check = <<>>

SpecAggregation == InitAggregation /\ [][IsAggregationRow]_vars

InitValidate ==
    /\ AssignIdle /\ SheetIdle /\ ReconIdle /\ FundIdle /\ RoundIdle /\ LedgerIdle
    /\ ValidateInit /\ agg_call = <<>> /\ total_call = <<>>

SpecValidate == InitValidate /\ [][ValidateFund]_vars

InitTotal ==
    /\ AssignIdle /\ SheetIdle /\ ReconIdle /\ FundIdle /\ RoundIdle /\ LedgerIdle
    /\ TotalInit /\ agg_call = <<>> /\ fund_check = <<>>

SpecTotal == InitTotal /\ [][FindGrandTotal]_vars

InitFund == AssignIdle /\ FundInit /\ ReconIdle /\ CallsIdle /\ RoundIdle /\ LedgerIdle

SpecFund == InitFund /\ [][FundNext]_vars

InitRound == AssignIdle /\ RoundInit /\ CallsIdle /\ LedgerIdle

SpecRound == InitRound /\ [][RoundNext]_vars

\* a call of process_sheet on a sheet of holdings rows with differing value
\* and quantity cells, under one of the registries and mapping tables
ValuesInit ==
    /\ df \in ValueSheets
    /\ schema = [data_start_row |-> 1, isin_col |-> 1, name_col |-> 0,
                 market_value_col |-> 2, quantity_col |-> 3]
    /\ isin_mapping \in ValueRegistries
    /\ validation_mapping \in ValueMappings
    /\ facts = SheetFacts(df, schema)
    /\ idx = schema.data_start_row - 1
    /\ rows = <<>>
    /\ unmapped = <<>>
    /\ calculated_total = 0
    /\ trace = <<>>
    /\ pc = "walk"

InitValues == AssignIdle /\ ValuesInit /\ ReconIdle /\ CallsIdle /\ FundIdle /\ RoundIdle /\ LedgerIdle

\* none of these rows stops the walk or is an aggregation row
ValuesNext == SkipZero \/ Emit \/ EndOfSheet

SpecValues == InitValues /\ [][ValuesNext]_vars

\* the cells the header rows of detect_schema are made of
HeaderCells == {
    Txt(<<"I","S","I","N">>),
    Txt(<<"N","a","m","e"," ","o","f"," ","t","h","e"," ","I","n","s","t","r","u","m","e","n","t">>),
    Txt(<<"M","a","r","k","e","t"," ","V","a","l","u","e">>),
    Txt(<<"Q","u","a","n","t","i","t","y">>),
    Txt(<<"%"," ","t","o"," ","N","e","t"," ","A","s","s","e","t","s">>),
    Txt(<<"Q","u","a","n","t","i","t","y","/","F","a","c","e"," ","V","a","l","u","e">>),
    Txt(<<"S","e","c","u","r","i","t","y"," ","I","S","I","N">>),
    NaN }

\* a title row, a header row of four cells and a row of data, or the header
\* row and the row of data alone
HeaderSheets ==
    { << <<Txt(<<"M","o","n","t","h","l","y"," ","P","o","r","t","f","o","l","i","o">>), NaN, NaN, NaN>>, header,
         <<Txt(<<"A","l","p","h","a"," ","L","t","d">>), Txt(IsinA), Num(100), Num(5)>> >> :
         header \in [1..4 -> HeaderCells] }
    \cup
    { << header, <<Txt(<<"A","l","p","h","a"," ","L","t","d">>), Txt(IsinA), Num(100), Num(5)>> >> :
         header \in [1..4 -> HeaderCells] }

\* process_fund up to the detection of the schema, for a fund without override
HeaderInit ==
    /\ df \in HeaderSheets
    /\ config = [schema_override |-> FALSE, name_col |-> 0, isin_col |-> 0,
                 quantity_col |-> 0, market_value_col |-> 0]
    /\ holdings = <<>>
    /\ schema = <<>>
    /\ isin_mapping = EmptyTable
    /\ validation_mapping = EmptyTable
    /\ facts = <<>>
    /\ idx = 0
    /\ rows = <<>>
    /\ unmapped = <<>>
    /\ calculated_total = 0
    /\ trace = <<>>
    /\ pc = "off"
    /\ fpc = "detect"

HeaderNext == DetectSchema \/ PrintSchema

InitHeader == AssignIdle /\ HeaderInit /\ ReconIdle /\ CallsIdle /\ RoundIdle /\ LedgerIdle

SpecHeader == InitHeader /\ [][HeaderNext]_vars

\* the rows under the header of the sheets on which the declared total is set
\* against the end of the walk: holdings, the three kinds of total row, a
\* subtotal and a line without value
StopRowCatalog == {
    <<Txt(<<"A","l","p","h","a"," ","L","t","d">>), Txt(IsinA), Num(100), Num(5)>>,
    <<Txt(<<"B","e","t","a"," ","L","t","d">>), Txt(IsinB), Num(200), NaN>>,
    <<Txt(<<"G","r","a","n","d"," ","T","o","t","a","l">>), NaN, Num(350), NaN>>,
    <<Txt(<<"T","o","t","a","l"," ","N","e","t"," ","A","s","s","e","t","s">>), NaN, Num(25000), Num(100)>>,
    <<Txt(<<"T","o","t","a","l">>), NaN, Num(25000), NaN>>,
    <<Txt(<<"S","u","b"," ","T","o","t","a","l">>), NaN, Num(150), NaN>>,
    <<Txt(<<"N","e","t"," ","R","e","c","e","i","v","a","b","l","e","s">>), NaN, Num(0), NaN>> }

StopSheets ==
    { << <<Txt(<<"N","a","m","e"," ","o","f"," ","t","h","e"," ","I","n","s","t","r","u","m","e","n","t">>), Txt(<<"I","S","I","N">>), Txt(<<"M","a","r","k","e","t","/","F","a","i","r"," ","V","a","l","u","e">>), Txt(<<"Q","u","a","n","t","i","t","y">>)>> >> \o body :
         body \in UNION { [1..n -> StopRowCatalog] : n \in 0..MaxRows } }

\* process_fund on such a sheet, for a fund without override and without rows
\* stored before
TotalStopInit ==
    /\ df \in StopSheets
    /\ config = [schema_override |-> FALSE, name_col |-> 0, isin_col |-> 0,
                 quantity_col |-> 0, market_value_col |-> 0]
    /\ holdings = <<>>
    /\ schema = <<>>
    /\ isin_mapping = EmptyTable
    /\ validation_mapping = EmptyTable
    /\ facts = <<>>
    /\ idx = 0
    /\ rows = <<>>
    /\ unmapped = <<>>
    /\ calculated_total = 0
    /\ trace = <<>>
    /\ pc = "off"
    /\ fpc = "detect"

\* no sheet has a row named "Reverse Repo"
TotalStopNext ==
    \/ DetectSchema
    \/ PrintSchema
    \/ StartWalk
    \/ Stop
    \/ EndOfSheet
    \/ SkipAggregation
    \/ SkipZero
    \/ Emit
    \/ InsertToDatabase

InitTotalStop == AssignIdle /\ TotalStopInit /\ ReconIdle /\ CallsIdle /\ RoundIdle /\ LedgerIdle

SpecTotalStop == InitTotalStop /\ [][TotalStopNext]_vars

\* headers on which detection agrees with the override of the fund, takes the
\* name column for the identifier column, or takes the quantity column for the
\* value column
OverrideHeaders == {
    <<Txt(<<"N","a","m","e"," ","o","f"," ","t","h","e"," ","I","n","s","t","r","u","m","e","n","t">>), Txt(<<"I","S","I","N">>), Txt(<<"M","a","r","k","e","t"," ","V","a","l","u","e">>), Txt(<<"Q","u","a","n","t","i","t","y">>)>>,
    <<Txt(<<"N","a","m","e"," ","o","f"," ","t","h","e"," ","I","n","s","t","r","u","m","e","n","t"," ","(","I","S","I","N","-","w","i","s","e",")">>), Txt(<<"I","S","I","N">>), Txt(<<"M","a","r","k","e","t"," ","V","a","l","u","e">>), Txt(<<"Q","u","a","n","t","i","t","y">>)>>,
    <<Txt(<<"N","a","m","e"," ","o","f"," ","t","h","e"," ","I","n","s","t","r","u","m","e","n","t">>), Txt(<<"I","S","I","N">>), Txt(<<"N","e","t"," ","M","a","r","k","e","t"," ","V","a","l","u","e">>), Txt(<<"Q","u","a","n","t","i","t","y"," ","(","F","a","c","e"," ","V","a","l","u","e",")">>)>> }

OverrideRowCatalog == {
    <<Txt(<<"A","l","p","h","a"," ","L","t","d">>), Txt(IsinA), Num(100), Num(5)>>,
    <<Txt(<<"B","e","t","a"," ","L","t","d">>), Txt(IsinB), Num(200), Num(7)>>,
    <<Txt(<<"I","N","D","E","X"," ","F","U","N","D","S">>), NaN, NaN, NaN>>,
    <<Txt(<<"G","r","a","n","d"," ","T","o","t","a","l">>), NaN, Num(300), NaN>> }

OverrideSheets ==
    { <<header>> \o body :
         header \in OverrideHeaders,
         body \in UNION { [1..n -> OverrideRowCatalog] : n \in 0..MaxRows } }

\* process_fund on such a sheet, for a fund with or without schema_override
OverrideInit ==
    /\ df \in OverrideSheets
    /\ config \in FundConfigs
    /\ holdings = <<>>
    /\ schema = <<>>
    /\ isin_mapping = EmptyTable
    /\ validation_mapping = EmptyTable
    /\ facts = <<>>
    /\ idx = 0
    /\ rows = <<>>
    /\ unmapped = <<>>
    /\ calculated_total = 0
    /\ trace = <<>>
    /\ pc = "off"
    /\ fpc = "detect"

\* no sheet has a subtotal or a row named "Reverse Repo"
OverrideNext ==
    \/ DetectSchema
    \/ PrintSchema
    \/ StartWalk
    \/ Stop
    \/ EndOfSheet
    \/ SkipZero
    \/ Emit
    \/ InsertToDatabase

InitOverride == AssignIdle /\ OverrideInit /\ ReconIdle /\ CallsIdle /\ RoundIdle /\ LedgerIdle

SpecOverride == InitOverride /\ [][OverrideNext]_vars

\* certificates of deposit and commercial papers of one issuer, under display
\* names that fall under two name-prefix keys
IssuerCatalog == <<
    <<"I","N","E","0","1","2","A","1","6","0","1","0">>, <<"I","N","E","0","1","2","A","1","6","0","2","8">>, <<"I","N","E","0","1","2","A","1","6","0","3","6">>, <<"I","N","E","0","1","2","A","1","6","0","4","4">>,
    <<"I","N","E","0","1","2","A","1","4","0","1","5">>, <<"I","N","E","0","1","2","A","1","4","0","2","3">> >>

IssuerNames == { NameBeta, NameAlphaCP, <<"A","l","p","h","a"," ","B","a","n","k"," ","L","t","d"," ","C","D"," ","0","8","J","A","N","2","6">> }

IssuerTables ==
    { [i \in DOMAIN IssuerCatalog |-> [isin |-> IssuerCatalog[i], name |-> names[i], mv |-> 10 * i]] :
        names \in [DOMAIN IssuerCatalog -> IssuerNames] }

\* detect_and_categorize on the holdings of one issuer
IssuerInit ==
    /\ name_facts = NameFacts(IssuerNames)
    /\ data \in { load_holdings_data(t) : t \in IssuerTables }
    /\ processed_isins = {}
    /\ validation_rows = <<>>
    /\ pending = <<>>
    /\ rpc = "goi"

InitIssuer == AssignIdle /\ SheetIdle /\ IssuerInit /\ CallsIdle /\ FundIdle /\ RoundIdle /\ LedgerIdle

SpecIssuer == InitIssuer /\ [][ReconNext]_vars

InitComments ==
    /\ AssignIdle /\ SheetIdle /\ ReconIdle /\ FundIdle /\ RoundIdle /\ LedgerIdle
    /\ CommentsInit /\ agg_call = <<>> /\ total_call = <<>>

SpecComments == InitComments /\ [][ValidateWithComments]_vars

InitLedger == AssignIdle /\ SheetIdle /\ ReconIdle /\ CallsIdle /\ LedgerInit /\ RoundIdle

SpecLedger == InitLedger /\ [][LedgerNext]_vars

-----------------------------------------------------------------------------
(* Properties of assign_isin and of the walk of process_sheet *)

\* s starts with "IN" and has at least 12 characters
ValidText(s) == Len(s) >= 12 /\ s[1] = "I" /\ s[2] = "N"

\* C1: assign_isin returns its argument unchanged when it starts with "IN" and
\* has length >= 12, and IN9999999999 for every other string: the empty one,
\* a lower-case prefix, fewer than 12 characters.
C1_AssignIsin ==
    a_pc = "ret" =>
        /\ ValidText(a_isin) => a_out = a_isin
        /\ ~ValidText(a_isin) => a_out = <<"I","N","9","9","9","9","9","9","9","9","9","9">>
        /\ a_isin = <<>> => a_out = <<"I","N","9","9","9","9","9","9","9","9","9","9">>
        /\ Len(a_isin) < 12 => a_out = <<"I","N","9","9","9","9","9","9","9","9","9","9">>
        /\ (Len(a_isin) >= 2 /\ a_isin[1] = "i") => a_out = <<"I","N","9","9","9","9","9","9","9","9","9","9">>

\* a malformed identifier of full length (lower-case prefix) got the cash code
C1_Witness ==
    /\ a_pc = "ret"
    /\ Len(a_isin) = 12 /\ a_isin[1] = "i" /\ a_isin[2] = "n"
    /\ a_out = <<"I","N","9","9","9","9","9","9","9","9","9","9">>

\* the 0-indexed positions the walk emitted, in order
Emitted == { trace[k].idx : k \in { m \in 1..Len(trace) : trace[m].what = "emit" } }

\* C2: every emitted row has a non-empty isin_assigned that starts with "IN"
\* and has length >= 12, or is IN9999999999.
C2_AssignedIsValidOrCash ==
    \A k \in 1..Len(rows) :
        /\ rows[k].isin_assigned # <<>>
        /\ ValidText(rows[k].isin_assigned) \/ rows[k].isin_assigned = <<"I","N","9","9","9","9","9","9","9","9","9","9">>

\* a row with a malformed, non-empty identifier was emitted under the cash code
C2_Witness ==
    \E k \in 1..Len(rows) :
        /\ rows[k].isin_original # <<>>
        /\ ~ValidText(rows[k].isin_original)
        /\ rows[k].isin_assigned = <<"I","N","9","9","9","9","9","9","9","9","9","9">>

\* the stop condition, read off the cells of a row
StopText(row) ==
    LET text  == Lower(JoinCells(row))
        first == IF row[1].k = "nan" THEN <<>> ELSE Lower(Strip(str(row[1])))
    IN  \/ Contains(text, <<"g","r","a","n","d"," ","t","o","t","a","l">>)
        \/ Contains(text, <<"t","o","t","a","l"," ","n","e","t"," ","a","s","s","e","t","s">>)
        \/ first = <<"t","o","t","a","l">>

\* the 0-indexed positions, from data_start_row on, of the stop rows of df
StopRows == { j \in (schema.data_start_row - 1)..(Len(df) - 1) : StopText(df[j + 1]) }

FirstStop == CHOOSE j \in StopRows : \A m \in StopRows : j <= m

\* C3: the first stop row met from data_start_row on, and every row after it,
\* is never emitted.
C3_NothingAtOrAfterStop ==
    pc \in {"walk", "done"} =>
        /\ Len(rows) = Cardinality(Emitted)
        /\ StopRows # {} => \A i \in Emitted : i < FirstStop

\* the walk ended at a stop row that is followed by a row with a valid
\* identifier and a non-zero value that no skip rule matches
C3_Witness ==
    /\ pc = "done"
    /\ StopRows # {}
    /\ \E i \in (FirstStop + 1)..(Len(df) - 1) :
          /\ ValidText(facts[i + 1].isin_original)
          /\ facts[i + 1].market_value # 0
          /\ ~facts[i + 1].aggregation
          /\ ~StopText(df[i + 1])
          /\ i \notin Emitted
    /\ Emitted # {}

\* the last position emitted
LastEmitted == CHOOSE i \in Emitted : \A m \in Emitted : m <= i

\* the row at position i is one the loop body appends when it gets to it
Kept(i) ==
    /\ ~StopText(df[i + 1])
    /\ ~facts[i + 1].aggregation
    /\ ~(facts[i + 1].needs_lookahead /\ is_subtotal(i))
    /\ facts[i + 1].market_value # 0

\* C4 as stated: when a stop row occurs at or after data_start_row, the row
\* right before the first stop row is the last row emitted (read for the sheets
\* in which that row is itself at or after data_start_row).
C4_Original ==
    (pc = "done" /\ StopRows # {} /\ FirstStop - 1 >= schema.data_start_row - 1) =>
        (Emitted # {} /\ LastEmitted = FirstStop - 1)

\* C4 as amended: when a stop row occurs at or after data_start_row, the rows
\* emitted are exactly the rows from data_start_row up to the row right before
\* the first stop row that the skip rules, the reverse-repo look-ahead and the
\* zero-value rule keep; so the row right before the first stop row is the last
\* row emitted exactly when it lies at or after data_start_row and is kept.
C4_LastKeptBeforeStop ==
    (pc = "done" /\ StopRows # {}) =>
        /\ Emitted = { i \in (schema.data_start_row - 1)..(FirstStop - 1) : Kept(i) }
        /\ (FirstStop - 1 \in Emitted) => LastEmitted = FirstStop - 1
        /\ (FirstStop - 1 \in Emitted) <=>
               (FirstStop - 1 >= schema.data_start_row - 1 /\ Kept(FirstStop - 1))

\* the walk stopped right after a row it emitted, with a skipped row before it
C4_Witness ==
    /\ pc = "done"
    /\ StopRows # {}
    /\ FirstStop - 1 \in Emitted
    /\ LastEmitted = FirstStop - 1
    /\ Len(trace) = 3

\* the name cell of the row at position i is exactly "reverse repo" and its
\* identifier cell is not a valid identifier
PlainReverseRepo(i) ==
    /\ Lower(Strip(facts[i + 1].name)) = <<"r","e","v","e","r","s","e"," ","r","e","p","o">>
    /\ ~ValidText(facts[i + 1].isin_original)

\* the positions after i whose market value is not 0
LaterValued(i) == { j \in (i + 1)..(Len(df) - 1) : facts[j + 1].market_value # 0 }

FirstLaterValued(i) == CHOOSE j \in LaterValued(i) : \A m \in LaterValued(i) : j <= m

\* the first later row with a non-zero market value is a child "reverse repo <detail>"
FollowedByChild(i) ==
    /\ LaterValued(i) # {}
    /\ LET n == Lower(facts[FirstLaterValued(i) + 1].name)
       IN  /\ Len(n) > Len(<<"r","e","v","e","r","s","e"," ","r","e","p","o">>)
           /\ SubSeq(n, 1, Len(<<"r","e","v","e","r","s","e"," ","r","e","p","o">>)) = <<"r","e","v","e","r","s","e"," ","r","e","p","o">>
           /\ Strip(n) # <<"r","e","v","e","r","s","e"," ","r","e","p","o">>

\* the rows the loop body gets to and does not skip as a stop or aggregation row
Examined(i) ==
    /\ i >= schema.data_start_row - 1
    /\ i < Len(df)
    /\ \A j \in (schema.data_start_row - 1)..i : ~StopText(df[j + 1])
    /\ ~facts[i + 1].aggregation

\* C10 as stated, for the plain "reverse repo" rows the walk examines: the row
\* is skipped iff the first later row with a non-zero market value is a child
\* row; otherwise it is emitted provided its own value is not 0; and the child
\* row is itself emitted.
C10_Original ==
    pc = "done" =>
        \A i \in 0..(Len(df) - 1) :
            (Examined(i) /\ PlainReverseRepo(i)) =>
                /\ FollowedByChild(i) => (i \notin Emitted /\ FirstLaterValued(i) \in Emitted)
                /\ ~FollowedByChild(i) => (i \in Emitted <=> facts[i + 1].market_value # 0)

\* C10 as amended: the same, except that the child row is emitted only when the
\* walk gets to it, that is when no stop row lies between the two rows or at
\* the child, and the child is not itself an aggregation row.
C10_ReverseRepoLookahead ==
    pc = "done" =>
        \A i \in 0..(Len(df) - 1) :
            (Examined(i) /\ PlainReverseRepo(i)) =>
                /\ FollowedByChild(i) =>
                      /\ i \notin Emitted
                      /\ FirstLaterValued(i) \in Emitted <=> Examined(FirstLaterValued(i))
                /\ ~FollowedByChild(i) => (i \in Emitted <=> facts[i + 1].market_value # 0)

\* Scenario E: "Reverse Repo" directly followed by its dated child; only the
\* child is emitted
C10_Witness ==
    /\ pc = "done"
    /\ \E i \in 0..(Len(df) - 2) :
          /\ Examined(i) /\ PlainReverseRepo(i) /\ FollowedByChild(i)
          /\ FirstLaterValued(i) = i + 1
          /\ i \notin Emitted
          /\ i + 1 \in Emitted


-----------------------------------------------------------------------------
(* Properties of detect_and_categorize *)

\* the identifiers of the ledger, and the reconciliation rows of one of them
Ids == { data[i].isin : i \in DOMAIN data }

RowsOf(id) == { k \in DOMAIN validation_rows : validation_rows[k].isin_original = id }

RowOf(id) == validation_rows[CHOOSE k \in RowsOf(id) : TRUE]

InCategory(id, category) == \E k \in RowsOf(id) : validation_rows[k].category = category

Categories ==
    { CORPORATE_ACTION, CD_AGGREGATE, CP_AGGREGATE, TBILL_AGGREGATE, GSEC_AGGREGATE, NO_ACTION }

\* claimed by the government-paper pass
GovernmentPaper(id) == InCategory(id, TBILL_AGGREGATE) \/ InCategory(id, GSEC_AGGREGATE)

\* C5: within one run over a ledger of one entry per identifier, every
\* identifier appears in at most one reconciliation row, hence in at most one
\* of the category lists of the results.
C5_OneRowPerIdentifier ==
    /\ \A i, j \in DOMAIN data : data[i].isin = data[j].isin => i = j
    /\ \A k1, k2 \in DOMAIN validation_rows :
          validation_rows[k1].isin_original = validation_rows[k2].isin_original => k1 = k2
    /\ \A id \in Ids :
          Cardinality({ c \in Categories :
                          \E k \in DOMAIN results(c) : results(c)[k].isin_original = id }) <= 1

\* a finished run whose rows fall into three categories
C5_Witness ==
    /\ rpc = "done"
    /\ Cardinality({ validation_rows[k].category : k \in DOMAIN validation_rows }) >= 3
    /\ \A id \in Ids : Cardinality(RowsOf(id)) = 1

BaseOf(id) == SubSeq(id, 1, 9)

SerialOf(id) == DigitsVal(SubSeq(id, 10, 11))

CaRows == { k \in DOMAIN validation_rows : validation_rows[k].category = CORPORATE_ACTION }

IsCanonical(k) == validation_rows[k].is_target /\ validation_rows[k].action = <<"T","A","R","G","E","T">>

\* exactly one row of G is canonical, and it has the highest serial of G
OneCanonicalHighest(G) ==
    \E c \in G :
        /\ IsCanonical(c)
        /\ \A k \in G \ {c} :
              /\ ~validation_rows[k].is_target
              /\ validation_rows[k].action # <<"T","A","R","G","E","T">>
              /\ SerialOf(validation_rows[k].isin_original) <= SerialOf(validation_rows[c].isin_original)

\* C6 as stated: in the output, for every base prefix that has CORPORATE_ACTION
\* rows, exactly one of those rows is canonical and it has the highest serial
\* among all CORPORATE_ACTION rows with that base prefix.
C6_Original ==
    rpc = "done" =>
        \A b \in { BaseOf(validation_rows[k].isin_original) : k \in CaRows } :
            OneCanonicalHighest({ k \in CaRows : BaseOf(validation_rows[k].isin_original) = b })

\* C6: for every name-prefix key and base prefix that have CORPORATE_ACTION
\* rows, exactly one of those rows is canonical (action TARGET, is_target
\* true), and its serial is the highest among the CORPORATE_ACTION rows of
\* that key and base prefix; the others have action MAP.
C6_CanonicalPerKeyAndBase ==
    \A g \in { <<validation_rows[k].name_cut, BaseOf(validation_rows[k].isin_original)>> : k \in CaRows } :
        LET G == { k \in CaRows : /\ validation_rows[k].name_cut = g[1]
                                  /\ BaseOf(validation_rows[k].isin_original) = g[2] }
        IN  /\ Cardinality(G) >= 2
            /\ OneCanonicalHighest(G)
            /\ \A k \in G : IsCanonical(k) \/ validation_rows[k].action = <<"M","A","P">>

\* a finished run in which one base prefix has two canonical rows, under two
\* name-prefix keys
C6_Witness ==
    /\ rpc = "done"
    /\ \E c1, c2 \in CaRows :
          /\ IsCanonical(c1) /\ IsCanonical(c2)
          /\ validation_rows[c1].name_cut # validation_rows[c2].name_cut
          /\ BaseOf(validation_rows[c1].isin_original) = BaseOf(validation_rows[c2].isin_original)

\* the entries of the ledger that share key and base prefix with entry i, are
\* equities and were not claimed as government paper
EquityPeers(i) ==
    { j \in DOMAIN data : /\ data[j].security_type = <<"0","1">>
                          /\ data[j].name_cut = data[i].name_cut
                          /\ data[j].base_9 = data[i].base_9
                          /\ ~GovernmentPaper(data[j].isin) }

\* the members of G are all CORPORATE_ACTION, one is canonical and maps to
\* itself, the others have action MAP and carry its identifier and the name
\* name_of_canonical gives for it
MappedToCanonical(G, name_of_canonical) ==
    /\ \A j \in G : Cardinality(RowsOf(data[j].isin)) = 1 /\ InCategory(data[j].isin, CORPORATE_ACTION)
    /\ \E c \in G :
          /\ RowOf(data[c].isin).is_target
          /\ RowOf(data[c].isin).action = <<"T","A","R","G","E","T">>
          /\ RowOf(data[c].isin).isin_mapped = data[c].isin
          /\ \A j \in G \ {c} :
                /\ ~RowOf(data[j].isin).is_target
                /\ RowOf(data[j].isin).action = <<"M","A","P">>
                /\ RowOf(data[j].isin).isin_mapped = data[c].isin
                /\ RowOf(data[j].isin).name_mapped = name_of_canonical[c]

\* C7 as stated: two or more equity identifiers that share a name-prefix key
\* and a base prefix are all CORPORATE_ACTION, and every non-canonical member
\* carries the canonical member's identifier and the canonical member's name.
C7_Original ==
    rpc = "done" =>
        \A i \in DOMAIN data :
            (i \in EquityPeers(i) /\ data[i].name_cut # <<>> /\ Cardinality(EquityPeers(i)) >= 2)
                => MappedToCanonical(EquityPeers(i), [c \in EquityPeers(i) |-> data[c].name])

\* C7: two or more equity identifiers (subtype "01") that share a non-empty
\* name-prefix key and a base prefix, none of them claimed by the
\* government-paper pass, are all CORPORATE_ACTION; every non-canonical member
\* has action MAP with isin_mapped the canonical member's identifier and
\* name_mapped the first 60 characters of the canonical member's name, and the
\* canonical member maps to itself.
C7_EquityPeersMapped ==
    rpc = "done" =>
        \A i \in DOMAIN data :
            (i \in EquityPeers(i) /\ data[i].name_cut # <<>> /\ Cardinality(EquityPeers(i)) >= 2)
                => MappedToCanonical(EquityPeers(i),
                                     [c \in EquityPeers(i) |->
                                        SubSeq(data[c].name, 1, IF Len(data[c].name) > 60 THEN 60
                                                                ELSE Len(data[c].name))])

\* a finished run in which a member carries a canonical name of more than 60
\* characters, cut to 60
C7_Witness ==
    /\ rpc = "done"
    /\ \E i \in DOMAIN data :
          /\ i \in EquityPeers(i) /\ Cardinality(EquityPeers(i)) >= 2
          /\ InCategory(data[i].isin, CORPORATE_ACTION)
          /\ RowOf(data[i].isin).action = <<"M","A","P">>
          /\ Len(RowOf(data[i].isin).name_mapped) = 60
          /\ RowOf(data[i].isin).name_mapped # RowOf(data[i].isin).name_original
          /\ \E c \in EquityPeers(i) : data[c].isin = RowOf(data[i].isin).isin_mapped /\ Len(data[c].name) > 60

\* a certificate of deposit, by the subtype of its identifier
IsCd(i) == SubSeq(data[i].isin, 8, 9) \in { <<"1","6">>, <<"D","6">> }

\* SYN + issuer code + "CD01"
SyntheticCd(id) == <<"S","Y","N">> \o SubSeq(id, 4, 7) \o <<"C","D","0","1">>

AggregatedAsCd(i) ==
    /\ Cardinality(RowsOf(data[i].isin)) = 1
    /\ RowOf(data[i].isin).category = CD_AGGREGATE
    /\ RowOf(data[i].isin).isin_mapped = SyntheticCd(data[i].isin)

\* the certificates of deposit of the issuer of entry i
CdsOfIssuer(i) ==
    { j \in DOMAIN data : IsCd(j) /\ SubSeq(data[j].isin, 4, 7) = SubSeq(data[i].isin, 4, 7) }

\* C8 as stated: whenever two or more identifiers share an issuer code and
\* have a certificate-of-deposit subtype, all of them are CD_AGGREGATE and
\* mapped to SYN + issuer code + "CD01".
C8_Original ==
    rpc = "done" =>
        \A i \in DOMAIN data :
            (IsCd(i) /\ Cardinality(CdsOfIssuer(i)) >= 2) => AggregatedAsCd(i)

\* the certificates of deposit of the issuer of entry i that share its key and
\* were not claimed as government paper
CdPeers(i) ==
    { j \in CdsOfIssuer(i) : data[j].name_cut = data[i].name_cut /\ ~GovernmentPaper(data[j].isin) }

\* C8: whenever two or more identifiers share a non-empty name-prefix key and
\* an issuer code and have a certificate-of-deposit subtype ("16" or "D6"),
\* none of them claimed by the government-paper pass, all of them are
\* CD_AGGREGATE and mapped to the one identifier SYN + issuer code + "CD01".
C8_CdPeersAggregated ==
    rpc = "done" =>
        \A i \in DOMAIN data :
            (i \in CdPeers(i) /\ data[i].name_cut # <<>> /\ Cardinality(CdPeers(i)) >= 2)
                => AggregatedAsCd(i)

\* a finished run that has aggregated a "16" and a "D6" certificate of one issuer
C8_Witness ==
    /\ rpc = "done"
    /\ \E i, j \in DOMAIN data :
          /\ SubSeq(data[i].isin, 8, 9) = <<"1","6">> /\ SubSeq(data[j].isin, 8, 9) = <<"D","6">>
          /\ j \in CdPeers(i)
          /\ AggregatedAsCd(i) /\ AggregatedAsCd(j)
          /\ RowOf(data[i].isin).isin_mapped = RowOf(data[j].isin).isin_mapped

\* the entries of the ledger under a key, and their issuer codes
KeyMembers(key) == { i \in DOMAIN data : data[i].name_cut = key }

IssuersOf(S) == { SubSeq(data[i].isin, 4, 7) : i \in S }

\* not claimed by a category other than NO_ACTION
Unclaimed(i) == \A c \in Categories \ {NO_ACTION} : ~InCategory(data[i].isin, c)

LeftAsIs(i) ==
    /\ Cardinality(RowsOf(data[i].isin)) = 1
    /\ RowOf(data[i].isin).category = NO_ACTION
    /\ RowOf(data[i].isin).isin_mapped = RowOf(data[i].isin).isin_original
    /\ RowOf(data[i].isin).name_mapped = RowOf(data[i].isin).name_original

NonEmptyKeys == { data[i].name_cut : i \in DOMAIN data } \ { <<>> }

\* C9 as stated: when a name-prefix key is shared by identifiers of two or
\* more different issuer codes, every identifier of that key that no other
\* category has claimed is a NO_ACTION row mapped to itself.
C9_Original ==
    rpc = "done" =>
        \A key \in NonEmptyKeys :
            Cardinality(IssuersOf(KeyMembers(key))) >= 2
                => \A i \in KeyMembers(key) : Unclaimed(i) => LeftAsIs(i)

\* C9: when a non-empty name-prefix key is shared by identifiers of two or
\* more different issuer codes that the government-paper pass has not claimed,
\* every identifier of that key that no other category has claimed is a
\* NO_ACTION row whose isin_mapped is its isin_original and whose name_mapped
\* is its name_original.
C9_CollidingIssuersLeftAsIs ==
    rpc = "done" =>
        \A key \in NonEmptyKeys :
            Cardinality(IssuersOf({ i \in KeyMembers(key) : ~GovernmentPaper(data[i].isin) })) >= 2
                => \A i \in KeyMembers(key) : Unclaimed(i) => LeftAsIs(i)

\* a finished run in which a key holds a corporate action of one issuer and
\* an identifier of another issuer, and both issuers have NO_ACTION rows
C9_Witness ==
    /\ rpc = "done"
    /\ \E i, j, m \in DOMAIN data :
          /\ data[i].name_cut = data[j].name_cut /\ data[j].name_cut = data[m].name_cut
          /\ SubSeq(data[i].isin, 4, 7) # SubSeq(data[j].isin, 4, 7)
          /\ LeftAsIs(i) /\ LeftAsIs(j)
          /\ InCategory(data[m].isin, CORPORATE_ACTION)

\* the entries of the ledger that share the key of entry i and that the
\* government-paper pass has not claimed
KeyGroup(i) ==
    { j \in KeyMembers(data[i].name_cut) : ~GovernmentPaper(data[j].isin) }

\* C15: every identifier that belongs to a name-prefix key group of two or
\* more distinct identifiers and is not classified into CORPORATE_ACTION,
\* CD_AGGREGATE, CP_AGGREGATE, TBILL_AGGREGATE or GSEC_AGGREGATE is recorded
\* as a NO_ACTION row, also when all identifiers of the group have the same
\* issuer code.
C15_UnclassifiedRecorded ==
    rpc = "done" =>
        \A i \in DOMAIN data :
            (data[i].name_cut # <<>> /\ Cardinality(KeyGroup(i)) >= 2 /\ Unclaimed(i))
                => InCategory(data[i].isin, NO_ACTION)

\* a commercial paper, by the subtype of its identifier
IsCp(i) == SubSeq(data[i].isin, 8, 9) = <<"1","4">>

\* "CD", "CP" or nothing, by the subtype of the identifier of entry i
KindOf(i) == IF IsCd(i) THEN <<"C","D">> ELSE IF IsCp(i) THEN <<"C","P">> ELSE <<>>

\* the unclaimed entries of the key group of entry i that have its issuer
\* code and its kind
PaperPeers(i) ==
    { j \in KeyGroup(i) : /\ SubSeq(data[j].isin, 4, 7) = SubSeq(data[i].isin, 4, 7)
                          /\ KindOf(j) = KindOf(i) }

\* entry i has the one row of an aggregate of its kind
Aggregated(i) ==
    /\ Cardinality(RowsOf(data[i].isin)) = 1
    /\ RowOf(data[i].isin).action = <<"A","G","G","R","E","G","A","T","E">>
    /\ RowOf(data[i].isin).category = KindOf(i) \o <<"_","A","G","G","R","E","G","A","T","E">>
    /\ RowOf(data[i].isin).isin_mapped = <<"S","Y","N">> \o SubSeq(data[i].isin, 4, 7) \o KindOf(i) \o <<"0","1">>

\* C16: within one name-prefix key group and one issuer code, two or more
\* unclaimed identifiers of a CD subtype ("16", "D6") all have action
\* AGGREGATE with isin_mapped SYN + issuer code + "CD01" and one common
\* name_mapped, whatever their base prefix; the same for commercial paper
\* ("14") with "CP01"; a single CD or CP of the issuer group is not aggregated.
C16_PaperAggregatedPerIssuer ==
    rpc = "done" =>
        \A i \in DOMAIN data :
            (data[i].name_cut # <<>> /\ KindOf(i) # <<>> /\ ~GovernmentPaper(data[i].isin))
                => IF Cardinality(PaperPeers(i)) >= 2
                   THEN /\ Aggregated(i)
                        /\ \A j \in PaperPeers(i) :
                              Aggregated(j) => RowOf(data[j].isin).name_mapped = RowOf(data[i].isin).name_mapped
                   ELSE \A k \in RowsOf(data[i].isin) : validation_rows[k].action # <<"A","G","G","R","E","G","A","T","E">>

\* a finished run that has aggregated two certificates of deposit of two
\* base prefixes and two commercial papers
C16_Witness ==
    /\ rpc = "done"
    /\ \E i, j \in DOMAIN data :
          /\ IsCd(i) /\ j \in PaperPeers(i) /\ data[i].base_9 # data[j].base_9
          /\ Aggregated(i) /\ Aggregated(j)
    /\ \E m, n \in DOMAIN data :
          IsCp(m) /\ n \in PaperPeers(m) /\ m # n /\ Aggregated(m) /\ Aggregated(n)

\* detected by name as a treasury bill or as a dated government bond
DetectedAs(i, goi_type) == name_facts[data[i].name].goi_type = goi_type

\* entry i has the one row of the government-paper aggregate
GoiRow(i, category, synthetic_isin, aggregated_name) ==
    /\ Cardinality(RowsOf(data[i].isin)) = 1
    /\ RowOf(data[i].isin).category = category
    /\ RowOf(data[i].isin).action = <<"A","G","G","R","E","G","A","T","E">>
    /\ RowOf(data[i].isin).isin_mapped = synthetic_isin
    /\ RowOf(data[i].isin).name_mapped = aggregated_name

IsGoiCategory(k) == validation_rows[k].category \in { TBILL_AGGREGATE, GSEC_AGGREGATE }

\* C17: the government-paper pass runs before all grouping: every identifier
\* whose name is detected as a T-Bill maps to SYNGOITBILL01 / "GOI T-BILL" and
\* every one detected as a G-Sec to SYNGOIGSEC01 / "GOI G-SEC", also when it
\* is the only one; a name with both the T-Bill and the coupon pattern is a
\* T-Bill; no identifier claimed by the pass has a CORPORATE_ACTION,
\* CD_AGGREGATE, CP_AGGREGATE or NO_ACTION row or counts toward the size of a
\* name-prefix group.
C17_GovernmentPaperFirst ==
    /\ rpc = "goi" => validation_rows = <<>>
    /\ rpc # "goi" =>
          /\ \A i \in DOMAIN data :
                /\ DetectedAs(i, "TBILL") => GoiRow(i, TBILL_AGGREGATE, <<"S","Y","N","G","O","I","T","B","I","L","L","0","1">>, <<"G","O","I"," ","T","-","B","I","L","L">>)
                /\ DetectedAs(i, "GSEC") => GoiRow(i, GSEC_AGGREGATE, <<"S","Y","N","G","O","I","G","S","E","C","0","1">>, <<"G","O","I"," ","G","-","S","E","C">>)
                /\ data[i].name = NameTbillCoupon => DetectedAs(i, "TBILL")
          /\ \A k1, k2 \in DOMAIN validation_rows :
                (IsGoiCategory(k1) /\ ~IsGoiCategory(k2)) => k1 < k2
          /\ \A g \in DOMAIN pending :
                \A m \in DOMAIN pending[g].items : ~GovernmentPaper(pending[g].items[m].isin)
    /\ rpc = "done" =>
          \A i \in DOMAIN data :
              (~GovernmentPaper(data[i].isin) /\ Cardinality(KeyGroup(i)) < 2) => RowsOf(data[i].isin) = {}

\* a finished run with a single T-Bill whose name also has a coupon, a single
\* G-Sec, and an identifier left alone under its key because the other
\* identifier of the key was claimed as a T-Bill
C17_Witness ==
    /\ rpc = "done"
    /\ Cardinality({ i \in DOMAIN data : DetectedAs(i, "TBILL") }) = 2
    /\ Cardinality({ i \in DOMAIN data : DetectedAs(i, "GSEC") }) = 1
    /\ \E i \in DOMAIN data : data[i].name = NameTbillCoupon /\ InCategory(data[i].isin, TBILL_AGGREGATE)
    /\ \E i, j \in DOMAIN data :
          /\ data[i].name_cut = data[j].name_cut
          /\ ~GovernmentPaper(data[i].isin) /\ GovernmentPaper(data[j].isin)
          /\ RowsOf(data[i].isin) = {}

-----------------------------------------------------------------------------
(* Properties of is_aggregation_row *)

\* the name, lower-cased and stripped, equals or starts with a section-header
\* phrase
SectionHeaderName(name) ==
    \E h \in Range(section_headers) : StartsWith(Strip(Lower(name)), h)

\* none of the other rules of is_aggregation_row applies to the call
NoTotalRule(call) ==
    /\ ~Contains(Lower(call.name), <<"t","o","t","a","l">>)
    /\ ~Contains(Lower(call.isin), <<"t","o","t","a","l">>)
    /\ ~Contains(Lower(call.full_row_text), <<"t","o","t","a","l">>)

\* C20: the section-header skip rule of is_aggregation_row applies only to
\* rows whose identifier is not valid in the sense of is_valid_isin (starts
\* with "IN", length >= 12): a row with a valid identifier whose name equals
\* or starts with a section-header phrase is not skipped by that rule, and
\* every row with an invalid identifier and such a name is skipped.
C20_SectionHeadersOnlyWithoutValidIsin ==
    (agg_call # <<>> /\ agg_call.pc = "ret"
        /\ SectionHeaderName(agg_call.name) /\ NoTotalRule(agg_call))
        => (agg_call.out <=> ~ValidText(agg_call.isin))

-----------------------------------------------------------------------------
(* Properties of validate_fund *)

\* C14: validate_fund classifies a fund-period as NO_EXCEL_TOTAL when no
\* declared total is available, ZERO_EXCEL_TOTAL when the declared total is 0,
\* and otherwise as PASS if and only if the absolute difference between the
\* persisted sum and the declared total is at most 0.0001 times the magnitude
\* of the declared total, and FAIL otherwise, for every non-zero declared
\* total, negative ones included.
C14_RelativeTolerance ==
    (fund_check # <<>> /\ fund_check.status # "UNKNOWN") =>
        LET db_total    == fund_check.db_total
            excel_total == fund_check.excel_total
            diff        == IF db_total >= excel_total.v THEN db_total - excel_total.v
                           ELSE excel_total.v - db_total
            magnitude   == IF excel_total.v >= 0 THEN excel_total.v ELSE -excel_total.v
        IN  fund_check.status =
                IF excel_total.none THEN "NO_EXCEL_TOTAL"
                ELSE IF excel_total.v = 0 THEN "ZERO_EXCEL_TOTAL"
                ELSE IF diff * 10000 <= magnitude THEN "PASS"
                ELSE "FAIL"

-----------------------------------------------------------------------------
(* Properties of find_grand_total *)

\* a cell that holds a number: not blank, and a number or a text float() reads
IsNumberCell(cell) == notna(cell) /\ float(cell).ok

\* the row satisfies pattern 1 and its value-column cell is a number
QualifiesByValueColumn(row, col) ==
    /\ Contains(Lower(JoinCells(row)), <<"g","r","a","n","d"," ","t","o","t","a","l">>)
    /\ ~col.none
    /\ IsNumberCell(iloc(row, col.v))

\* the cells of the row that are numbers greater than 10,000
LargeNumbers(row) == { c \in DOMAIN row : IsNumberCell(row[c]) /\ float(row[c]).v > 10000 }

\* the row satisfies pattern 2 or 3 and has a number greater than 10,000
QualifiesByLargeNumber(row) ==
    /\ \/ Contains(Lower(JoinCells(row)), <<"t","o","t","a","l"," ","n","e","t"," ","a","s","s","e","t","s">>)
       \/ Lower(Strip(str(row[1]))) = <<"t","o","t","a","l">> /\ notna(row[1])
    /\ LargeNumbers(row) # {}

QualifyingRows(sheet, col) ==
    { i \in DOMAIN sheet : QualifiesByValueColumn(sheet[i], col) \/ QualifiesByLargeNumber(sheet[i]) }

\* C19: find_grand_total returns the lowest-indexed row that satisfies one of
\* the three patterns and yields a usable number, with that number (pattern 1:
\* the number in the value column; patterns 2 and 3: the first number greater
\* than 10,000 in column order), and returns not-found when no row qualifies;
\* it does so for every value column, an absent one included.
C19_LowestQualifyingRow ==
    total_call # <<>> /\ total_call.pc = "ret" =>
        LET qualifying == QualifyingRows(total_call.df, total_call.market_value_col)
            out  == total_call.out
        IN  IF qualifying = {} THEN out.row = None /\ out.value = None
            ELSE LET i   == Least(qualifying)
                     row == total_call.df[i]
                 IN  /\ out.row = Some(i)
                     /\ ~out.nan
                     /\ out.value =
                          IF QualifiesByValueColumn(row, total_call.market_value_col)
                          THEN Some(float(iloc(row, total_call.market_value_col.v)).v)
                          ELSE Some(float(row[Least(LargeNumbers(row))]).v)

-----------------------------------------------------------------------------
(* Properties of detect_schema and process_fund *)

\* the cell holds a text in which "isin" occurs, in any case
IsinCell(cell) == notna(cell) /\ Contains(Lower(str(cell)), <<"i","s","i","n">>)

\* the rows of the sheet with such a cell, 1-indexed
IsinRows(sheet) == { i \in DOMAIN sheet : \E c \in DOMAIN sheet[i] : IsinCell(sheet[i][c]) }

NoIsinCell(sheet) == IsinRows(sheet) = {}

\* the header row, and the identifier column: the first such cell of that row
HeaderOf(sheet) == Least(IsinRows(sheet))
IdentifierColumn(sheet, header) == Least({ c \in DOMAIN sheet[header] : IsinCell(sheet[header][c]) })

\* the identifier of a row: the text of its identifier cell without the
\* surrounding blanks, empty for a blank cell
IdentifierIn(row, column) == IF notna(row[column]) THEN Strip(str(row[column])) ELSE <<>>

\* the header row and the first row after it whose identifier starts with
\* "IN", both 1-indexed, and the identifiers of the rows; 0 stands for no row
Layout(sheet) ==
    IF NoIsinCell(sheet) THEN [header |-> 0, first |-> 0, identifier |-> <<>>]
    ELSE TheOne({ TheOne({ TheOne({
            [header |-> header,
             first |-> IF \A i \in (header + 1)..Len(sheet) : ~StartsWith(identifier[i], <<"I","N">>) THEN 0
                       ELSE Least({ i \in (header + 1)..Len(sheet) : StartsWith(identifier[i], <<"I","N">>) }),
             identifier |-> identifier] :
            identifier \in { [i \in DOMAIN sheet |-> IdentifierIn(sheet[i], column)] } }) :
            column \in { IdentifierColumn(sheet, header) } }) :
            header \in { HeaderOf(sheet) } })

\* C13: on a sheet without any cell containing "isin", or with a header row
\* but no later row whose identifier starts with "IN", no step of process_fund
\* changes the holdings of the fund-period, the loop of process_sheet is never
\* entered, the insertion is never reached, and the run goes to the error: at
\* detect_schema without a header, at the latest at process_sheet otherwise.
C13_ErrorBeforeLedgerChange ==
    [][ fpc # "off" =>
          \A layout \in { Layout(df) } :
             layout.first = 0 =>
                /\ holdings' = holdings
                /\ pc' = "off"
                /\ fpc' \in {"print", "sheet", "error"}
                /\ (layout.header = 0 => fpc' = "error")
                /\ (fpc = "sheet" => fpc' = "error") ]_vars

\* a run with persisted rows on a sheet whose header names every column and
\* whose only identifiers after the header are lower-case has ended in the error
C13_Witness ==
    /\ fpc = "error"
    /\ holdings # <<>>
    /\ schema # <<>> /\ prints_columns(schema)
    /\ \E layout \in { Layout(df) } :
          /\ layout.header > 0 /\ layout.first = 0
          /\ \E i \in (layout.header + 1)..Len(df) : StartsWith(Lower(layout.identifier[i]), <<"i","n">>)

\* C18: detect_schema sets data_start_row to the first row after the header
\* whose identifier starts with "IN" (case-sensitive; None when there is no
\* such row), the walk of process_sheet examines that row first, and no row
\* above it is examined or emitted.
C18_WalkStartsAtFirstDataRow ==
    fpc \in {"print", "sheet", "done"} =>
       \A layout \in { Layout(df) } :
          /\ pc = "off" =>
                schema.data_start_row = IF layout.first = 0 THEN None ELSE Some(layout.first)
          /\ pc \in {"walk", "done"} =>
                /\ layout.first > 0
                /\ schema.data_start_row = layout.first
                /\ trace = <<>> /\ pc = "walk" => idx = layout.first - 1
                /\ trace # <<>> => trace[1].idx = layout.first - 1
                /\ \A k \in DOMAIN trace : trace[k].idx >= layout.first - 1
                /\ \A k \in DOMAIN rows :
                      \E i \in layout.first..Len(df) : rows[k].isin_original = layout.identifier[i]

\* the first data row was emitted, it is not the row after the header, and
\* a row between the two has a market value that is not 0
C18_Witness ==
    /\ fpc = "done"
    /\ trace # <<>> /\ trace[1].what = "emit"
    /\ \E layout \in { Layout(df) } :
          /\ trace[1].idx = layout.first - 1
          /\ layout.first > layout.header + 1
          /\ \E i \in (layout.header + 1)..(layout.first - 1) :
                float_or_0(df[i], 2) # 0 /\ ~StartsWith(layout.identifier[i], <<"I","N">>)

-----------------------------------------------------------------------------
(* Properties of the mapping file and of the second conversion *)

ActionMap       == <<"M","A","P">>
ActionAggregate == <<"A","G","G","R","E","G","A","T","E">>

\* the rows of the first reconciliation that map or aggregate an identifier
Mapped(result_rows) ==
    { j \in DOMAIN result_rows : result_rows[j].action \in {ActionMap, ActionAggregate} }

\* the rows of the first reconciliation that leave an identifier as it is:
\* the canonical rows (TARGET) and the NO_ACTION rows (NONE)
Unmapped(result_rows) == DOMAIN result_rows \ Mapped(result_rows)

\* C11: once the mapping file of the first reconciliation is written and read
\* back, process_sheet gives every row whose identifier has a line in the file
\* the isin_mapped, name_mapped, category and reason of the reconciliation row
\* of that identifier; and the reconciliation of the ledger converted with
\* that mapping returns the rows of the first reconciliation.
C11_RoundTrip ==
    /\ pass = 2 /\ pc = "done" =>
          \A k \in DOMAIN rows : \A j \in Mapped(first_mapping) :
             first_mapping[j].isin_original = rows[k].isin_assigned =>
                /\ rows[k].isin_mapped      = first_mapping[j].isin_mapped
                /\ rows[k].name_mapped      = first_mapping[j].name_mapped
                /\ rows[k].mapping_category = first_mapping[j].category
                /\ rows[k].mapping_reason   = first_mapping[j].reason
    /\ pass = 2 /\ rpc = "done" => validation_rows = first_mapping

-----------------------------------------------------------------------------
(* Properties of the values, names and mapping columns of emitted rows *)

\* a cell that holds a number, or text that float() reads as one
NumericCell(cell) == cell.k = "num" \/ (cell.k = "str" /\ ParseFloat(cell.s).ok)

\* the number in a numeric cell
NumberIn(cell) == IF cell.k = "num" THEN cell.n ELSE ParseFloat(cell.s).v

\* a cell read as 0: blank, not a number, or the number 0
ReadAsZero(cell) == ~notna(cell) \/ ~NumericCell(cell) \/ NumberIn(cell) = 0

\* the emitted row the k-th step of the walk appended
EmittedAt(k) == rows[Cardinality({ j \in 1..k : trace[j].what = "emit" })]

\* C22: a blank or non-numeric market-value or quantity cell is read as 0 and
\* the walk goes on to the end of the sheet; a row whose market value is 0 is
\* not emitted, a row with any other market value, negative ones included, is
\* emitted with that value, and with quantity 0 when its quantity cell is blank
\* or not a number
C22_BlankOrNonNumericReadAsZero ==
    /\ pc = "done" => Len(trace) = Len(df)
    /\ \A k \in 1..Len(trace) :
         \A value \in { df[trace[k].idx + 1][schema.market_value_col + 1] } :
         \A quantity \in { df[trace[k].idx + 1][schema.quantity_col + 1] } :
            /\ ReadAsZero(value) <=> trace[k].what = "zero"
            /\ ~ReadAsZero(value) <=> trace[k].what = "emit"
            /\ trace[k].what = "emit" =>
                 /\ EmittedAt(k).market_value = NumberIn(value)
                 /\ EmittedAt(k).market_value # 0
                 /\ EmittedAt(k).quantity =
                      IF ReadAsZero(quantity) THEN 0 ELSE NumberIn(quantity)

\* a row with a negative market value and a quantity that is not a number has
\* been emitted, and a row whose market value is not a number has been skipped
C22_Witness ==
    /\ pc = "done"
    /\ \E k \in 1..Len(trace) :
         /\ trace[k].what = "emit"
         /\ EmittedAt(k).market_value < 0
         /\ EmittedAt(k).quantity = 0
         /\ ~NumericCell(df[trace[k].idx + 1][schema.quantity_col + 1])
    /\ \E k \in 1..Len(trace) :
         /\ trace[k].what = "zero"
         /\ notna(df[trace[k].idx + 1][schema.market_value_col + 1])
         /\ ~NumericCell(df[trace[k].idx + 1][schema.market_value_col + 1])

\* the text of the name cell of the row the k-th step of the walk looked at
NameCellAt(k) ==
    LET cell == df[trace[k].idx + 1][schema.name_col + 1]
    IN  IF notna(cell) THEN Strip(str(cell)) ELSE <<>>

\* the registry has a name that is not empty for the identifier
RegistryNames(isin) ==
    isin \in DOMAIN isin_mapping /\ isin_mapping[isin].name_nsdl # <<>>

\* C23: name_final of an emitted row is the registry's name for the assigned
\* identifier when the registry has a non-empty one, otherwise "Cash & Other
\* Assets" when the assigned identifier is the synthetic cash code, otherwise
\* the instrument name read from the sheet
C23_NameFinalPrecedence ==
    \A k \in 1..Len(trace) :
       trace[k].what = "emit" =>
         \A row \in { EmittedAt(k) } :
            row.name_final =
               IF RegistryNames(row.isin_assigned)
               THEN isin_mapping[row.isin_assigned].name_nsdl
               ELSE IF row.isin_assigned = <<"I","N","9","9","9","9","9","9","9","9","9","9">>
               THEN <<"C","a","s","h"," ","&"," ","O","t","h","e","r"," ","A","s","s","e","t","s">>
               ELSE NameCellAt(k)

\* the three cases in the rows of one sheet
C23_Witness ==
    /\ pc = "done"
    /\ \E k, l, m \in 1..Len(rows) :
          /\ RegistryNames(rows[k].isin_assigned)
          /\ rows[k].name_final = rows[k].name_nsdl
          /\ rows[l].isin_assigned = ISIN_OTHER
          /\ rows[l].name_final = ISIN_OTHER_DISPLAY_NAME
          /\ rows[m].isin_assigned # ISIN_OTHER
          /\ ~RegistryNames(rows[m].isin_assigned)
          /\ rows[m].name_final = rows[m].instrument_name

\* C24: an emitted row whose assigned identifier has no entry in the mapping
\* table has isin_mapped = isin_assigned and name_mapped = name_final, and its
\* mapping_category is "CASH_AGGREGATE", with the fixed reason, exactly when the
\* assigned identifier is the synthetic cash code and is empty otherwise; a
\* category that the mapping table supplies is the row's category
C24_DefaultsWithoutMappingEntry ==
    \A k \in 1..Len(rows) :
       \A row \in { rows[k] } :
          IF row.isin_assigned \notin DOMAIN validation_mapping
          THEN /\ row.isin_mapped = row.isin_assigned
               /\ row.name_mapped = row.name_final
               /\ row.mapping_category = <<"C","A","S","H","_","A","G","G","R","E","G","A","T","E">>
                    <=> row.isin_assigned = <<"I","N","9","9","9","9","9","9","9","9","9","9">>
               /\ row.mapping_category = <<"C","A","S","H","_","A","G","G","R","E","G","A","T","E">>
                    => row.mapping_reason = CASH_REASON
               /\ row.mapping_category # <<"C","A","S","H","_","A","G","G","R","E","G","A","T","E">>
                    => row.mapping_category = <<>> /\ row.mapping_reason = <<>>
          ELSE validation_mapping[row.isin_assigned].category # <<>>
                 => row.mapping_category = validation_mapping[row.isin_assigned].category

\* a cash row and a row of a real identifier, neither in a mapping table that
\* has entries, have been emitted
C24_Witness ==
    /\ pc = "done"
    /\ DOMAIN validation_mapping # {}
    /\ \E k, m \in 1..Len(rows) :
          /\ rows[k].isin_assigned = ISIN_OTHER
          /\ rows[k].isin_assigned \notin DOMAIN validation_mapping
          /\ rows[k].mapping_category = CASH_AGGREGATE
          /\ rows[k].isin_mapped = ISIN_OTHER
          /\ rows[m].isin_assigned # ISIN_OTHER
          /\ rows[m].isin_assigned \notin DOMAIN validation_mapping
          /\ rows[m].mapping_category = <<>>
          /\ rows[m].name_mapped = rows[m].name_final

-----------------------------------------------------------------------------
(* Properties of the column roles of detect_schema *)

\* the roles in the order of the chain: identifier, name, value, quantity
Roles == 1..4

\* the keyword rule of a role on a header cell
Satisfies(role, cell) ==
    \A text \in { IF notna(cell) THEN Lower(str(cell)) ELSE <<>> } :
       CASE role = 1 -> Contains(text, <<"i","s","i","n">>)
         [] role = 2 -> \/ Contains(text, <<"i","n","s","t","r","u","m","e","n","t">>)
                        \/ Contains(text, <<"n","a","m","e"," ","o","f">>)
                        \/ Contains(text, <<"s","e","c","u","r","i","t","y">>)
                        \/ Contains(text, <<"c","o","m","p","a","n","y">>)
         [] role = 3 -> /\ \/ Contains(text, <<"m","a","r","k","e","t">>)
                           \/ Contains(text, <<"f","a","i","r"," ","v","a","l","u","e">>)
                           \/ Contains(text, <<"n","a","v">>)
                           \/ Contains(text, <<"v","a","l","u","e">>)
                        /\ ~Contains(text, <<"n","e","t">>)
         [] role = 4 -> \/ Contains(text, <<"q","u","a","n","t","i","t","y">>)
                        \/ Contains(text, <<"q","t","y">>)
                        \/ Contains(text, <<"u","n","i","t","s">>)
                        \/ Contains(text, <<"n","o","s">>)

\* the leftmost cell of the header that satisfies the rule of the role,
\* 1-indexed; 0 when no cell does
Leftmost(role, header) ==
    IF \A c \in DOMAIN header : ~Satisfies(role, header[c]) THEN 0
    ELSE Least({ c \in DOMAIN header : Satisfies(role, header[c]) })

RECURSIVE GivenTo(_, _)
\* the leftmost cell that satisfies the rule of the role and is left over by
\* the roles before it: every earlier role whose rule the cell satisfies as
\* well has its cell further left; 0 when there is no such cell
GivenTo(role, header) ==
    TheOne({ IF free = {} THEN 0 ELSE Least(free) :
             free \in { { c \in DOMAIN header :
                            /\ Satisfies(role, header[c])
                            /\ \A earlier \in 1..(role - 1) :
                                  Satisfies(earlier, header[c])
                                     => GivenTo(earlier, header) \in 1..(c - 1) } } })

\* the column the schema has for the role, 1-indexed; 0 for None
ColumnOf(sc, role) ==
    TheOne({ IF col.none THEN 0 ELSE col.v + 1 :
             col \in { <<sc.isin_col, sc.name_col, sc.market_value_col, sc.quantity_col>>[role] } })

\* detect_schema has returned a schema
Detected == fpc # "detect" /\ ~NoIsinCell(df)

\* C21, as stated: each role is bound to the leftmost cell of the header row
\* that satisfies the role's keyword rule
C21_RoleBoundToLeftmostMatch ==
    Detected =>
       \A role \in Roles : ColumnOf(schema, role) = Leftmost(role, df[HeaderOf(df)])

\* C21, amended: a header cell is given to one role only, the first of
\* identifier, name, value, quantity whose rule it satisfies and which has no
\* cell yet; each role is bound to the leftmost cell that satisfies its rule
\* among the cells not given to an earlier role, and to none if there is no
\* such cell; a later cell never replaces it
C21_RoleBoundToLeftmostFreeCell ==
    Detected =>
       \A role \in Roles : ColumnOf(schema, role) = GivenTo(role, df[HeaderOf(df)])

\* a header in which the value role has taken the leftmost cell of the
\* quantity rule, the quantity role is bound further right, and a later cell
\* of the value rule has not replaced the first
C21_Witness ==
    /\ Detected
    /\ \A header \in { df[HeaderOf(df)] } :
          /\ ColumnOf(schema, 3) = Leftmost(4, header)
          /\ ColumnOf(schema, 4) > Leftmost(4, header)
          /\ \E c \in DOMAIN header : c > ColumnOf(schema, 3) /\ Satisfies(3, header[c])

-----------------------------------------------------------------------------
(* Properties of the declared total and the end of the walk *)

\* C28: when detect_schema reports a grand-total row at or below
\* data_start_row, process_sheet, run with the detected schema, emits no row at
\* or below the grand-total row; the row find_grand_total returns satisfies a
\* stop condition of the walk
C28_NoRowEmittedFromGrandTotalOn ==
    fpc \in {"sheet", "done"} =>
       \A detected \in { detect_schema(df).schema } :
          /\ ~detected.grand_total_row.none
                => StopText(df[detected.grand_total_row.v])
          /\ (/\ ~detected.grand_total_row.none
               /\ ~detected.data_start_row.none
               /\ detected.grand_total_row.v >= detected.data_start_row.v)
              => \A k \in 1..Len(trace) :
                    trace[k].what = "emit" => trace[k].idx + 1 < detected.grand_total_row.v

\* a walk that has emitted a row and come to its end on a sheet whose
\* grand-total row, found by the text "Total Net Assets" or by a first cell
\* "Total", has a holdings row under it
C28_Witness ==
    /\ fpc = "done"
    /\ rows # <<>>
    /\ \A detected \in { detect_schema(df).schema } :
          /\ ~detected.grand_total_row.none
          /\ detected.grand_total_row.v >= detected.data_start_row.v
          /\ detected.grand_total_row.v < Len(df)
          /\ ~Contains(Lower(JoinCells(df[detected.grand_total_row.v])), <<"g","r","a","n","d"," ","t","o","t","a","l">>)
          /\ is_valid_isin(IdentifierIn(df[Len(df)], 2))

-----------------------------------------------------------------------------
(* Properties of the schema after the override of process_fund *)

\* the first row after the header whose cell in the column, 0-indexed, starts
\* with "IN", 1-indexed; 0 when there is none
FirstDataRowIn(sheet, column) ==
    TheOne({ IF from_in = {} THEN 0 ELSE Least(from_in) :
             from_in \in { { i \in (HeaderOf(sheet) + 1)..Len(sheet) :
                               StartsWith(IdentifierIn(sheet[i], column + 1), <<"I","N">>) } } })

\* C29: after the override of process_fund the schema is self-consistent:
\* data_start_row is the first row after the header whose cell in the final
\* identifier column starts with "IN", and the grand total is what
\* find_grand_total returns for the final value column
C29_SchemaConsistentAfterOverride ==
    (fpc = "print" /\ config.schema_override) =>
       /\ \A first \in { FirstDataRowIn(df, schema.isin_col.v) } :
             IF first = 0 THEN schema.data_start_row.none
             ELSE schema.data_start_row = Some(first)
       /\ \A total \in { find_grand_total(df, schema.market_value_col) } :
             /\ schema.grand_total_row = total.row
             /\ schema.grand_total = total.value
             /\ schema.grand_total_nan = total.nan

-----------------------------------------------------------------------------
(* Properties of the mapped names of a reconciliation run *)

\* C30: within one reconciliation run any two rows with action MAP or AGGREGATE
\* that have the same isin_mapped have the same name_mapped, rows of the same
\* issuer grouped under different name-prefix keys included
C30_OneNamePerMappedIdentifier ==
    \A j, k \in Mapped(validation_rows) :
       validation_rows[j].isin_mapped = validation_rows[k].isin_mapped
          => validation_rows[j].name_mapped = validation_rows[k].name_mapped

-----------------------------------------------------------------------------
(* Properties of the manual-review comments of validate_fund *)

\* C26: a manual-review comment changes only the manual_review field of the
\* result: status, difference, diff_pct, db_total and excel_grand_total are
\* what validate_fund returns without any comment; and the comment entered
\* for one fund-period never appears on another
C26_CommentOnlyAnnotates ==
    (fund_check # <<>> /\ fund_check.result # <<>>) =>
       \A annotated \in { fund_check.result } :
       \A plain \in { validation_result(fund_check.fund_code, fund_check.month_end, <<>>,
                                          fund_check.db_total, fund_check.excel_total) } :
          /\ annotated.status = plain.status
          /\ annotated.difference = plain.difference
          /\ annotated.diff_pct = plain.diff_pct
          /\ annotated.db_total = plain.db_total
          /\ annotated.excel_grand_total = plain.excel_grand_total
          /\ plain.manual_review = <<>>
          /\ annotated.manual_review =
                IF \E key \in DOMAIN fund_check.comments :
                      fund_check.comments[key] = CommentOn(fund_check.fund_code, fund_check.month_end)
                THEN CommentOn(fund_check.fund_code, fund_check.month_end)
                ELSE <<>>

\* a failing fund-month has been validated with its comment and the comments
\* of the three other fund-months on file
C26_Witness ==
    /\ fund_check # <<>>
    /\ fund_check.result # <<>>
    /\ fund_check.result.status = "FAIL"
    /\ fund_check.result.manual_review = CommentOn(fund_check.fund_code, fund_check.month_end)
    /\ Cardinality(DOMAIN fund_check.comments) = 4

-----------------------------------------------------------------------------
(* Properties of the ingestions of several fund-periods *)

\* the rows the table holds for a fund-period, in the order of the table
RowsOfKey(table, scheme_name, month_end) ==
    TheOne({ [i \in DOMAIN stored |-> stored[i].row] :
             stored \in { SelectSeq(table, LAMBDA h : /\ h.scheme_name = scheme_name
                                                      /\ h.month_end = month_end) } })

\* the fund-periods of the table before the runs and of the runs
FundPeriods ==
    { <<ingestions.before[i].scheme_name, ingestions.before[i].month_end>> :
         i \in DOMAIN ingestions.before }
    \cup { <<ingestions.jobs[w].scheme_name, ingestions.jobs[w].month_end>> : w \in Workers }

\* the runs whose fund-period is the given one
RunsOf(key) ==
    { w \in Workers : <<ingestions.jobs[w].scheme_name, ingestions.jobs[w].month_end>> = key }

\* the sheets belong to pairwise different fund-periods
PairwiseDifferent == \A key \in FundPeriods : Cardinality(RunsOf(key)) <= 1

AllDone == \A w \in Workers : ingestions.jobs[w].at = "done"

\* once every ingestion is done, the table holds for each fund-period the rows
\* of its sheet, and for a fund-period without sheet the rows it held before
SameLedgerInTheEnd ==
    (ingestions # <<>> /\ PairwiseDifferent /\ AllDone) =>
       \A key \in FundPeriods :
          RowsOfKey(holdings, key[1], key[2]) =
             IF RunsOf(key) = {} THEN RowsOfKey(ingestions.before, key[1], key[2])
             ELSE ingestions.jobs[TheOne(RunsOf(key))].rows

\* a step changes the rows of the fund-period of the run that takes it only
OnlyOwnRowsChange ==
    ingestions # <<>> =>
       \A key \in FundPeriods :
          RowsOfKey(holdings', key[1], key[2]) # RowsOfKey(holdings, key[1], key[2])
             => \E w \in RunsOf(key) : ingestions'.jobs[w] # ingestions.jobs[w]

\* C25: for sheets of pairwise different fund-periods the final ledger is the
\* same for every order and interleaving of the ingestions, each a DELETE
\* followed by the INSERTs of its rows: it depends on the sheets alone; and no
\* step of an ingestion changes the rows of another fund-period
C25_IngestionsCommute == []SameLedgerInTheEnd /\ [][OnlyOwnRowsChange]_vars

\* two ingestions of different fund-periods are both between their DELETE and
\* their commit, each with a row inserted, and the third is done
C25_Witness ==
    /\ ingestions # <<>>
    /\ PairwiseDifferent
    /\ \E u, v, w \in Workers :
          /\ u # v
          /\ ingestions.jobs[u].at = "insert" /\ ingestions.jobs[u].inserted >= 1
          /\ ingestions.jobs[v].at = "insert" /\ ingestions.jobs[v].inserted >= 1
          /\ ingestions.jobs[w].at = "done"

\* the rows of the last ingestion of the fund-period that has committed; the
\* rows the table held before when there is none
LastCommitted(key) ==
    TheOne({ IF commits = {} THEN RowsOfKey(ingestions.before, key[1], key[2])
             ELSE ingestions.log[CHOOSE i \in commits : \A j \in commits : j <= i].rows :
             commits \in { { i \in DOMAIN ingestions.log :
                               /\ ingestions.log[i].scheme_name = key[1]
                               /\ ingestions.log[i].month_end = key[2] } } })

\* C27: after any sequence of successful ingestions the table holds for each
\* (scheme, month) key exactly the rows of the most recent ingestion of that
\* key: a re-ingestion replaces the rows, ingesting a sheet twice leaves what
\* ingesting it once leaves, and the rows of every other key are unchanged
C27_LastIngestionWins ==
    ingestions # <<>> =>
       \A key \in FundPeriods :
          ~InProgress(key[1], key[2])
             => RowsOfKey(holdings, key[1], key[2]) = LastCommitted(key)

\* a fund-period with rows before has been ingested twice, the second time
\* from a sheet with other rows, and a third ingestion was of another key
C27_Witness ==
    /\ ingestions # <<>>
    /\ AllDone
    /\ Len(ingestions.log) = 3
    /\ \E key \in FundPeriods :
          /\ RowsOfKey(ingestions.before, key[1], key[2]) # <<>>
          /\ \E i, j \in DOMAIN ingestions.log :
                /\ i < j
                /\ <<ingestions.log[i].scheme_name, ingestions.log[i].month_end>> = key
                /\ <<ingestions.log[j].scheme_name, ingestions.log[j].month_end>> = key
                /\ ingestions.log[i].rows # ingestions.log[j].rows
                /\ ingestions.log[j].rows # <<>>
                /\ RowsOfKey(holdings, key[1], key[2]) = ingestions.log[j].rows

====
